---------------------------- MODULE Spec2Model ----------------------------
(***************************************************************************)
(* A model of adx-query: the LDAP filter parser and evaluator              *)
(* (filter_engine.py), the snapshot entry reader (dat_reader.py) and the   *)
(* streaming query engine (query_engine.py).                               *)
(*                                                                         *)
(* Text is a sequence of one-character strings, bytes are numbers 0..255.  *)
(* A Python exception is an outcome tag: "EOFError", "KeyError",           *)
(* "FilterSyntaxError", "ValueError".                                      *)
(***************************************************************************)
EXTENDS Integers, Sequences, FiniteSets, TLC

VARIABLES
    mode,          \* which part of the program this behaviour exercises
    \* ---- QueryEngine.search() over a snapshot
    snapshot,      \* the object records of the open snapshot, in offset order
    filter_node,   \* QueryEngine.filter_node
    limit,         \* QueryEngine.limit
    pc,            \* position of the search() generator
    idx,           \* how many offsets iter_entries() has consumed
    constructed,   \* how many SnapshotEntry objects were built successfully
    evaluated,     \* local variable `evaluated` of search()
    matches,       \* local variable `matches` of search()
    yielded,       \* the index positions the consumer has received, in order
    stats,         \* QueryEngine.stats
    \* ---- parse_filter() on one input text
    data,          \* Parser.data
    parsed,        \* what parse_filter(data) did: a tree or an exception
    \* ---- FilterNode.evaluate() of one node on one entry
    ev_entry,      \* the entry
    ev_node,       \* the filter F
    ev_res,        \* outcome of F.evaluate(ctx)
    ev_not,        \* outcome of NotNode(F).evaluate(ctx)
    \* ---- SnapshotReader(path, use_mmap) on one file
    file,          \* the file at the path
    use_mmap,      \* the constructor's use_mmap argument
    reader,        \* the SnapshotReader: not built, open, or failed with an exception
    asked,         \* the last get_property(name) call and what it returned
    \* ---- SnapshotEntry.get_attribute_values() calls on one entry
    lk_record,     \* the object record the entry was built from
    lk_entry,      \* the entry, with its two caches
    lk_calls,      \* the calls made so far, each with what it returned
    \* ---- QueryEngine(reader, ..., attributes) and the projection of one entry
    attributes,    \* the attributes argument: none, or the requested names
    engine,        \* what construction left in _selected_attributes and _unknown_attributes
    pj_entry,      \* the entry that is projected
    pj_out,        \* the last materialise() or to_dict() call and what it returned
    \* ---- a second search() on the engine, and what the consumer materialises
    ignore_case,   \* QueryEngine.ignore_case
    records,       \* engine.materialise(entry) of yielded entries, by position in yielded
    previous,      \* the search that was run before, and engine.stats as the current one began
    \* ---- the byte source of the reader
    source,        \* the file handle and the memory map: unopened, open or closed
    block,         \* the with-block around the reader and the calls of close()
    image,         \* the object records as stored, one element per unit read
    fh_pos         \* the read position of reader.fh

vars == << mode, snapshot, filter_node, limit, pc, idx, constructed, evaluated,
           matches, yielded, stats, data, parsed,
           ev_entry, ev_node, ev_res, ev_not,
           file, use_mmap, reader, asked,
           lk_record, lk_entry, lk_calls,
           attributes, engine, pj_entry, pj_out,
           ignore_case, records, previous, source, block,
           image, fh_pos >>

searchVars == << snapshot, filter_node, limit, pc, idx, constructed, evaluated,
                 matches, yielded, stats >>
parseVars == << data, parsed >>
evalVars == << ev_entry, ev_node, ev_res, ev_not >>
openVars == << file, use_mmap, reader, asked >>
lookupVars == << lk_record, lk_entry, lk_calls >>
projectVars == << attributes, engine, pj_entry, pj_out >>
runVars == << ignore_case, records, previous >>
sourceVars == << source, block >>
streamVars == << image, fh_pos >>

-----------------------------------------------------------------------------
(* Bounds of the model *)

MaxEntries == 3      \* object records in a snapshot
MaxLimit == 2        \* largest result limit tried
MaxValueLen == 5     \* characters of a filter value in (a=<value>)
MaxChunks == 4       \* pieces of a structural filter text
MaxNeedleLen == 4    \* characters of an integer needle in (u=<needle>)
MaxPatternLen == 4   \* characters of a starred value in (cn=<value>)

-----------------------------------------------------------------------------
(* Generic helpers *)

SeqsUpTo(S, n) == UNION { [ 1..k -> S ] : k \in 0..n }

RECURSIVE Flatten(_)
Flatten(ss) == IF ss = <<>> THEN <<>> ELSE Head(ss) \o Flatten(Tail(ss))

SetMax(S) == CHOOSE x \in S : \A y \in S : y <= x

SetMin(S) == CHOOSE x \in S : \A y \in S : x <= y

-----------------------------------------------------------------------------
(* Characters: str.lower / str.casefold / str.isspace / ord / chr on the    *)
(* characters the model uses.                                               *)

LowerChar(ch) ==
    CASE ch = "A" -> "a" [] ch = "B" -> "b" [] ch = "C" -> "c" [] ch = "L" -> "l"
      [] ch = "N" -> "n" [] ch = "U" -> "u" [] ch = "X" -> "x" [] ch = "Z" -> "z"
      [] OTHER -> ch

Lower(s) == [ i \in 1..Len(s) |-> LowerChar(s[i]) ]

Casefold(s) == Lower(s)

IsSpace(ch) == ch \in { " ", "\t", "\n" }

Ord(ch) ==
    CASE ch = "U+0001" -> 1 [] ch = "U+0002" -> 2
      [] ch = "\t" -> 9   [] ch = "\n" -> 10 [] ch = " " -> 32  [] ch = "!" -> 33  [] ch = "\"" -> 34
      [] ch = "&" -> 38   [] ch = "(" -> 40  [] ch = ")" -> 41  [] ch = "*" -> 42
      [] ch = "+" -> 43   [] ch = "," -> 44  [] ch = "-" -> 45
      [] ch = "0" -> 48   [] ch = "1" -> 49  [] ch = "2" -> 50  [] ch = "4" -> 52
      [] ch = "5" -> 53   [] ch = "8" -> 56
      [] ch = "<" -> 60   [] ch = "=" -> 61  [] ch = ">" -> 62
      [] ch = "A" -> 65   [] ch = "B" -> 66  [] ch = "C" -> 67  [] ch = "L" -> 76
      [] ch = "N" -> 78   [] ch = "U" -> 85  [] ch = "X" -> 88  [] ch = "Z" -> 90
      [] ch = "\\" -> 92  [] ch = "_" -> 95
      [] ch = "a" -> 97   [] ch = "b" -> 98  [] ch = "c" -> 99  [] ch = "e" -> 101
      [] ch = "g" -> 103  [] ch = "i" -> 105 [] ch = "l" -> 108  [] ch = "n" -> 110 [] ch = "o" -> 111 [] ch = "u" -> 117
      [] ch = "x" -> 120  [] ch = "z" -> 122 [] ch = "|" -> 124 [] ch = "~" -> 126
      [] ch = "U+00A2" -> 162 [] ch = "U+00AA" -> 170
      [] ch = "U+20AC" -> 8364

KnownChars ==
    { "U+0001", "U+0002", "\t", "\n", " ", "!", "\"", "&", "(", ")", "*", "+", ",", "-", "0", "1", "2", "4",
      "5", "8", "<", "=", ">", "A", "B", "C", "L", "N", "U", "X", "Z", "\\", "_",
      "a", "b", "c", "e", "g", "i", "l", "n", "o", "u", "x", "z", "|", "~",
      "U+00A2", "U+00AA", "U+20AC" }

ChrOf(hits) == IF hits = {} THEN "?" ELSE CHOOSE ch \in hits : TRUE

Chr(n) == ChrOf({ ch \in KnownChars : Ord(ch) = n })


StripKeep(s, keep) == IF keep = {} THEN <<>> ELSE SubSeq(s, SetMin(keep), SetMax(keep))

\* str.strip()
Strip(s) == StripKeep(s, { i \in 1..Len(s) : ~IsSpace(s[i]) })

Contains(s, ch) == \E i \in 1..Len(s) : s[i] = ch

\* index (1-based) of the first occurrence of ch in s, 0 when there is none
FirstIndex(s, ch) ==
    IF \E i \in 1..Len(s) : s[i] = ch
    THEN SetMin({ i \in 1..Len(s) : s[i] = ch })
    ELSE 0

StartsWith(s, p) == Len(p) <= Len(s) /\ SubSeq(s, 1, Len(p)) = p

EndsWith(s, p) == Len(p) <= Len(s) /\ SubSeq(s, Len(s) - Len(p) + 1, Len(s)) = p

\* str.find(seg, pos): the lowest 0-based index >= pos where seg occurs, or -1
FindIn(hits) == IF hits = {} THEN -1 ELSE SetMin(hits)

\* candidate.find(segment) without the cursor
Find_FromStart(s, seg, pos) ==
    FindIn({ i \in 0..(Len(s) - Len(seg)) : SubSeq(s, i + 1, i + Len(seg)) = seg })

Find(s, seg, pos) ==
    FindIn({ i \in pos..(Len(s) - Len(seg)) : SubSeq(s, i + 1, i + Len(seg)) = seg })

DigitChar(d) ==
    CASE d = 0 -> "0" [] d = 1 -> "1" [] d = 2 -> "2" [] d = 3 -> "3" [] d = 4 -> "4"
      [] d = 5 -> "5" [] d = 6 -> "6" [] d = 7 -> "7" [] d = 8 -> "8" [] d = 9 -> "9"

RECURSIVE NatToStr(_)
NatToStr(n) == IF n < 10 THEN << DigitChar(n) >>
               ELSE Append(NatToStr(n \div 10), DigitChar(n % 10))

IntToStr(n) == IF n < 0 THEN << "-" >> \o NatToStr(0 - n) ELSE NatToStr(n)

-----------------------------------------------------------------------------
(* FilterValue: the escape-decoded bytes of a filter value *)

\* bytes.decode("utf-8") succeeds: one-byte characters and two-byte sequences
\* (lead C2..DF, continuation 80..BF); longer sequences need lead bytes the
\* modelled filter alphabet cannot produce.
RECURSIVE Utf8Valid(_)
Utf8Valid(raw) ==
    IF raw = <<>> THEN TRUE
    ELSE IF raw[1] < 128 THEN Utf8Valid(Tail(raw))
    ELSE IF raw[1] >= 194 /\ raw[1] <= 223 /\ Len(raw) >= 2
            /\ raw[2] >= 128 /\ raw[2] <= 191
         THEN Utf8Valid(Tail(Tail(raw)))
    ELSE FALSE

RECURSIVE Utf8Decode(_)
Utf8Decode(raw) ==
    IF raw = <<>> THEN <<>>
    ELSE IF raw[1] < 128 THEN << Chr(raw[1]) >> \o Utf8Decode(Tail(raw))
    ELSE << Chr((raw[1] - 192) * 64 + (raw[2] - 128)) >> \o Utf8Decode(Tail(Tail(raw)))

Latin1Decode(raw) == [ i \in 1..Len(raw) |-> Chr(raw[i]) ]

as_str(raw) == IF Utf8Valid(raw) THEN Utf8Decode(raw) ELSE Latin1Decode(raw)

as_bytes(raw) == raw

-----------------------------------------------------------------------------
(* The schema of the modelled snapshot (SnapshotReader._properties) *)

ADSTYPE_CASE_IGNORE_STRING == 3
ADSTYPE_BOOLEAN == 6
ADSTYPE_INTEGER == 7
ADSTYPE_OCTET_STRING == 8

\* the type codes _read_values decodes as NUL-terminated UTF-16 strings
StringTypes == { 1, 2, 3, 4, 5, 12 }

Properties ==
    << [ index |-> 0, name |-> << "C", "n" >>, ads_type |-> ADSTYPE_CASE_IGNORE_STRING ],
       [ index |-> 1, name |-> << "u" >>,      ads_type |-> ADSTYPE_INTEGER ],
       [ index |-> 2, name |-> << "B" >>,      ads_type |-> ADSTYPE_BOOLEAN ],
       [ index |-> 3, name |-> << "o" >>,      ads_type |-> ADSTYPE_OCTET_STRING ] >>

NoProperty == [ found |-> FALSE, index |-> 0 - 1, name |-> <<>>, ads_type |-> 0 ]

FoundProperty(p) ==
    [ found |-> TRUE, index |-> p.index, name |-> p.name, ads_type |-> p.ads_type ]

\* by_name.get(...): a later property of the same lowered name has overwritten
\* an earlier one
PropertyAt(hits) == IF hits = {} THEN NoProperty ELSE FoundProperty(Properties[SetMax(hits)])

\* SnapshotReader.get_property
get_property(name) ==
    PropertyAt({ i \in 1..Len(Properties) : Lower(Properties[i].name) = Lower(name) })

-----------------------------------------------------------------------------
(* SnapshotEntry *)

\* An object record on disk: header_ok is false when the record's size word or
\* mapping table runs past the end of the file; each pair of the mapping table
\* carries the payload found at its relative offset (readable is false when
\* the payload runs past the end of the file).
Payload(words) == [ readable |-> TRUE, num_values |-> Len(words), words |-> words ]
EmptyPayload == [ readable |-> TRUE, num_values |-> 0, words |-> <<>> ]
ShortPayload == [ readable |-> FALSE, num_values |-> 0, words |-> <<>> ]

EmptyCache == [ i \in {} |-> <<>> ]

\* SnapshotEntry.__init__ / _read_object_header
NewEntry(rec) ==
    IF rec.header_ok
    THEN [ st |-> "ok",
           entry |-> [ mapping |-> rec.mapping, cache |-> EmptyCache, raw_cache |-> EmptyCache ] ]
    ELSE [ st |-> "EOFError",
           entry |-> [ mapping |-> <<>>, cache |-> EmptyCache, raw_cache |-> EmptyCache ] ]

HexChar(d) ==
    CASE d = 0 -> "0" [] d = 1 -> "1" [] d = 2 -> "2" [] d = 3 -> "3"
      [] d = 4 -> "4" [] d = 5 -> "5" [] d = 6 -> "6" [] d = 7 -> "7"
      [] d = 8 -> "8" [] d = 9 -> "9" [] d = 10 -> "a" [] d = 11 -> "b"
      [] d = 12 -> "c" [] d = 13 -> "d" [] d = 14 -> "e" [] d = 15 -> "f"

\* bytes.hex()
Hex(blob) == [ i \in 1..(2 * Len(blob)) |->
                 IF i % 2 = 1 THEN HexChar(blob[(i + 1) \div 2] \div 16)
                 ELSE HexChar(blob[i \div 2] % 16) ]

\* _decode_octet_string for a property that is neither a GUID nor objectSid
_decode_octet_string(blob, raw) ==
    IF raw THEN [ t |-> "bytes", s |-> blob, n |-> 0 ] ELSE [ t |-> "str", s |-> Hex(blob), n |-> 0 ]

\* one value of _read_values, for the types of the modelled schema
DecodeWord(ads_type, word, raw) ==
    IF ads_type \in StringTypes THEN [ t |-> "str", s |-> word, n |-> 0 ]
    ELSE IF ads_type = ADSTYPE_OCTET_STRING THEN _decode_octet_string(word, raw)
    ELSE IF ads_type = ADSTYPE_BOOLEAN
    THEN [ t |-> "bool", s |-> <<>>, n |-> IF word # 0 THEN 1 ELSE 0 ]
    ELSE [ t |-> "int", s |-> <<>>, n |-> word ]

\* SnapshotEntry._read_values
_read_values(prop, payload, raw) ==
    IF ~payload.readable THEN [ st |-> "EOFError", values |-> <<>> ]
    ELSE IF payload.num_values = 0 THEN [ st |-> "ok", values |-> <<>> ]
    ELSE [ st |-> "ok",
           values |-> [ i \in 1..payload.num_values |-> DecodeWord(prop.ads_type, payload.words[i], raw) ] ]

CachePut(cache, k, v) == [ i \in (DOMAIN cache) \cup { k } |-> IF i = k THEN v ELSE cache[i] ]

\* `cache[prop.index] = values; return values`
StoreValues(entry, prop, raw, rd) ==
    IF rd.st # "ok" THEN [ st |-> rd.st, values |-> <<>>, entry |-> entry ]
    ELSE [ st |-> "ok", values |-> rd.values,
           entry |-> IF raw
                     THEN [ entry EXCEPT !.raw_cache = CachePut(@, prop.index, rd.values) ]
                     ELSE [ entry EXCEPT !.cache = CachePut(@, prop.index, rd.values) ] ]

\* the scan of self._mapping for the first pair of the property
ReadPair(entry, prop, raw, pairs) ==
    IF pairs = {} THEN [ st |-> "KeyError", values |-> <<>>, entry |-> entry ]
    ELSE StoreValues(entry, prop, raw,
                     _read_values(prop, entry.mapping[SetMin(pairs)].payload, raw))

\* one cache for both modes
CacheOf_Shared(entry, raw) == entry.cache

CacheOf(entry, raw) == IF raw THEN entry.raw_cache ELSE entry.cache

ValuesOf(entry, prop, raw) ==
    IF ~prop.found THEN [ st |-> "KeyError", values |-> <<>>, entry |-> entry ]
    ELSE IF prop.index \in DOMAIN CacheOf(entry, raw)
    THEN [ st |-> "ok", values |-> CacheOf(entry, raw)[prop.index], entry |-> entry ]
    ELSE ReadPair(entry, prop, raw,
                  { i \in 1..Len(entry.mapping) : entry.mapping[i].idx = prop.index })

\* SnapshotEntry.get_attribute_values: the outcome ("ok", "KeyError" or
\* "EOFError"), the value list and the entry with its caches as the call
\* leaves them
get_attribute_values(entry, attr_name, raw) == ValuesOf(entry, get_property(attr_name), raw)

-----------------------------------------------------------------------------
(* Python's int(text, base) for base 16 and base 0 (prefix auto-detection) *)

DigitVal(ch) ==
    CASE ch = "0" -> 0 [] ch = "1" -> 1 [] ch = "2" -> 2 [] ch = "3" -> 3 [] ch = "4" -> 4
      [] ch = "5" -> 5 [] ch = "6" -> 6 [] ch = "7" -> 7 [] ch = "8" -> 8 [] ch = "9" -> 9
      [] ch \in { "a", "A" } -> 10 [] ch \in { "b", "B" } -> 11 [] ch \in { "c", "C" } -> 12
      [] ch \in { "d", "D" } -> 13 [] ch \in { "e", "E" } -> 14 [] ch \in { "f", "F" } -> 15
      [] OTHER -> 99

RECURSIVE DigitsValue(_, _, _)
DigitsValue(ds, base, acc) ==
    IF ds = <<>> THEN acc
    ELSE DigitsValue(Tail(ds), base, acc * base + DigitVal(Head(ds)))

NoInt == [ ok |-> FALSE, n |-> 0 ]

SomeInt(n, neg) == [ ok |-> TRUE, n |-> IF neg THEN 0 - n ELSE n ]

\* the digits of a literal: digits of the base, with single underscores only
\* between digits (or right after a base prefix)
IntDigits(body, digits, base, prefixed, neg) ==
    IF \/ digits = <<>>
       \/ body[Len(body)] = "_"
       \/ (body[1] = "_" /\ ~prefixed)
       \/ \E i \in 1..(Len(body) - 1) : body[i] = "_" /\ body[i + 1] = "_"
       \/ \E i \in 1..Len(digits) : DigitVal(digits[i]) >= base
    THEN NoInt
    ELSE SomeInt(DigitsValue(digits, base, 0), neg)

IntBody(body, base, prefixed, neg) ==
    IF body = <<>> THEN NoInt
    ELSE IntDigits(body, SelectSeq(body, LAMBDA ch : ch # "_"), base, prefixed, neg)

HasPrefix(rest, letters) == Len(rest) >= 2 /\ rest[1] = "0" /\ rest[2] \in letters

\* base 0 reading a decimal literal with a leading zero as the decimal number
DecimalBase0_LeadingZero(rest, r) == r

\* base 0 refuses a nonzero decimal literal written with a leading zero
DecimalBase0(rest, r) == IF r.ok /\ rest[1] = "0" /\ r.n # 0 THEN NoInt ELSE r

\* the literal after the sign: [base, body, prefixed]
LiteralOf(rest, base) ==
    IF HasPrefix(rest, { "x", "X" }) /\ base \in { 0, 16 }
    THEN [ base |-> 16, body |-> SubSeq(rest, 3, Len(rest)), prefixed |-> TRUE ]
    ELSE IF HasPrefix(rest, { "o", "O" }) /\ base = 0
    THEN [ base |-> 8, body |-> SubSeq(rest, 3, Len(rest)), prefixed |-> TRUE ]
    ELSE IF HasPrefix(rest, { "b", "B" }) /\ base = 0
    THEN [ base |-> 2, body |-> SubSeq(rest, 3, Len(rest)), prefixed |-> TRUE ]
    ELSE [ base |-> IF base = 0 THEN 10 ELSE base, body |-> rest, prefixed |-> FALSE ]

IntLiteral(rest, base, lit, neg) ==
    IF base = 0 /\ ~lit.prefixed
    THEN DecimalBase0(rest, IntBody(lit.body, lit.base, lit.prefixed, neg))
    ELSE IntBody(lit.body, lit.base, lit.prefixed, neg)

SignedInt(t, base, signed) ==
    IF Len(t) = (IF signed THEN 1 ELSE 0) THEN NoInt
    ELSE IntLiteral(IF signed THEN Tail(t) ELSE t, base,
                    LiteralOf(IF signed THEN Tail(t) ELSE t, base),
                    Len(t) >= 1 /\ t[1] = "-")

StrippedInt(t, base) == SignedInt(t, base, Len(t) >= 1 /\ t[1] \in { "+", "-" })

\* int(text, base): surrounding whitespace, a sign, a base prefix, the digits
ParseInt(text, base) == StrippedInt(Strip(text), base)

-----------------------------------------------------------------------------
(* The filter tree and its evaluation *)

NoAnchor == [ present |-> FALSE, s |-> <<>> ]
Anchor(s) == [ present |-> TRUE, s |-> s ]

AndNode(nodes) == [ kind |-> "And", nodes |-> nodes ]
OrNode(nodes) == [ kind |-> "Or", nodes |-> nodes ]
NotNode(node) == [ kind |-> "Not", node |-> node ]
PresenceNode(attr) == [ kind |-> "Presence", attr |-> attr ]
EqualityNode(attr, value) == [ kind |-> "Equality", attr |-> attr, value |-> value ]
SubstringNode(attr, pattern) == [ kind |-> "Substring", attr |-> attr, pattern |-> pattern ]
SubstringPattern(initial, any, final) == [ initial |-> initial, any |-> any, final |-> final ]

\* SubstringPattern.normalised(ctx.ignore_case)
normalised_ByFlag(pattern) ==
    IF ignore_case
    THEN [ initial |-> IF pattern.initial.present THEN Anchor(Casefold(pattern.initial.s)) ELSE NoAnchor,
           any |-> [ i \in 1..Len(pattern.any) |-> Casefold(pattern.any[i]) ],
           final |-> IF pattern.final.present THEN Anchor(Casefold(pattern.final.s)) ELSE NoAnchor ]
    ELSE pattern

\* SubstringPattern.normalised(True)
normalised(pattern) ==
    [ initial |-> IF pattern.initial.present THEN Anchor(Casefold(pattern.initial.s)) ELSE NoAnchor,
      any |-> [ i \in 1..Len(pattern.any) |-> Casefold(pattern.any[i]) ],
      final |-> IF pattern.final.present THEN Anchor(Casefold(pattern.final.s)) ELSE NoAnchor ]

\* the loop over self.any of SubstringPattern.matches: the cursor after the
\* fragments, or -1 when one of them is not found
RECURSIVE ScanFragments(_, _, _)
RECURSIVE ScanFrom(_, _, _)
ScanFrom(candidate, any, at) ==
    IF at = 0 - 1 THEN 0 - 1 ELSE ScanFragments(candidate, Tail(any), at + Len(Head(any)))

ScanFragments(candidate, any, pos) ==
    IF any = <<>> THEN pos ELSE ScanFrom(candidate, any, Find(candidate, Head(any), pos))

\* SubstringPattern.matches
PatternMatches(pattern, candidate) ==
    /\ pattern.initial.present => StartsWith(candidate, pattern.initial.s)
    /\ ScanFragments(candidate, pattern.any,
                     IF pattern.initial.present THEN Len(pattern.initial.s) ELSE 0) # 0 - 1
    /\ pattern.final.present => EndsWith(candidate, pattern.final.s)

\* str(value) of a decoded value
StrOf(v) ==
    CASE v.t = "str" -> v.s
      [] v.t = "int" -> IntToStr(v.n)
      [] v.t = "bool" -> IF v.n = 1 THEN << "T", "r", "u", "e" >> ELSE << "F", "a", "l", "s", "e" >>

NoText == [ present |-> FALSE, s |-> <<>> ]

\* the RDN value taken without .strip()
RdnOfFirst_Unstripped(first) ==
    IF ~Contains(first, "=") THEN NoText
    ELSE [ present |-> TRUE, s |-> SubSeq(first, FirstIndex(first, "=") + 1, Len(first)) ]

\* first.split("=", 1)[1].strip() when first holds an "="
RdnOfFirst(first) ==
    IF ~Contains(first, "=") THEN NoText
    ELSE [ present |-> TRUE,
           s |-> Strip(SubSeq(first, FirstIndex(first, "=") + 1, Len(first))) ]

\* dn.split(",", 1)[0]
FirstComponent(dn, comma) == IF comma = 0 THEN dn ELSE SubSeq(dn, 1, comma - 1)

\* _extract_rdn_value
_extract_rdn_value(dn) ==
    IF ~Contains(dn, "=") THEN NoText
    ELSE RdnOfFirst(FirstComponent(dn, FirstIndex(dn, ",")))

NoneValue == [ t |-> "none", s |-> <<>>, n |-> 0 ]

BoolNeedle(raw) ==
    IF raw \in { << "t", "r", "u", "e" >>, << "1" >> } THEN [ t |-> "bool", s |-> <<>>, n |-> 1 ]
    ELSE IF raw \in { << "f", "a", "l", "s", "e" >>, << "0" >> }
    THEN [ t |-> "bool", s |-> <<>>, n |-> 0 ]
    ELSE NoneValue

IntNeedle(r) == IF r.ok THEN [ t |-> "int", s |-> <<>>, n |-> r.n ] ELSE NoneValue

SampleType(sample_values) == IF sample_values = <<>> THEN "none" ELSE sample_values[1].t

PrepareAs(sample_type, needle, text) ==
    IF sample_type = "bool" THEN BoolNeedle(Lower(text))
    ELSE IF sample_type = "int" THEN IntNeedle(ParseInt(text, 0))
    ELSE IF sample_type = "bytes" THEN [ t |-> "bytes", s |-> as_bytes(needle), n |-> 0 ]
    ELSE [ t |-> "str", s |-> Casefold(text), n |-> 0 ]

\* EqualityNode._prepare_value: the needle typed after the first stored value
_prepare_value(sample_values, needle) ==
    PrepareAs(SampleType(sample_values), needle, as_str(needle))

RdnEquals(rdn, needle_norm) == rdn.present /\ Casefold(rdn.s) = needle_norm

\* the string branch of _compare
CompareText(value_str, needle_norm) ==
    \/ Casefold(value_str) = needle_norm
    \/ RdnEquals(_extract_rdn_value(value_str), needle_norm)

\* EqualityNode._compare (a Python bool is an int as well)
_compare(value, needle) ==
    IF needle.t = "none" THEN FALSE
    ELSE IF value.t = "bool" /\ needle.t = "bool" THEN value.n = needle.n
    ELSE IF value.t \in { "int", "bool" } /\ needle.t \in { "int", "bool" } THEN value.n = needle.n
    ELSE IF value.t = "bytes" /\ needle.t = "bytes" THEN value.s = needle.s
    ELSE CompareText(StrOf(value), Casefold(StrOf(needle)))

Bool(b) == IF b THEN "T" ELSE "F"

\* the lookup without its `except KeyError` clause
CatchKeyError_Uncaught(got) == got

\* `except KeyError: return False` around entry.get_attribute_values
CatchKeyError(got) ==
    IF got.st = "KeyError" THEN [ st |-> "F", values |-> <<>>, entry |-> got.entry ] ELSE got

LeafGet(entry, prop) ==
    IF ~prop.found THEN [ st |-> "F", values |-> <<>>, entry |-> entry ]
    ELSE CatchKeyError(get_attribute_values(entry, prop.name, FALSE))

\* the attribute lookup the three leaf nodes share: ctx.get_property, then
\* entry.get_attribute_values under `except KeyError`. st is "ok" with the
\* values, "F" when the node returns False at once, or the exception raised.
LeafValues(attr, entry) == LeafGet(entry, get_property(attr))

PresenceOf(got) ==
    IF got.st # "ok" THEN [ res |-> got.st, entry |-> got.entry ]
    ELSE [ res |-> Bool(Len(got.values) > 0), entry |-> got.entry ]

\* PresenceNode.evaluate
EvalPresence(node, entry) == PresenceOf(LeafValues(node.attr, entry))

AnyEqual(values, typed_value) ==
    /\ typed_value.t # "none"
    /\ \E i \in 1..Len(values) : _compare(values[i], typed_value)

EqualityOf(node, got) ==
    IF got.st # "ok" THEN [ res |-> got.st, entry |-> got.entry ]
    ELSE [ res |-> Bool(AnyEqual(got.values, _prepare_value(got.values, node.value))),
           entry |-> got.entry ]

\* EqualityNode.evaluate
EvalEquality(node, entry) == EqualityOf(node, LeafValues(node.attr, entry))

AnyMatches(values, pattern) ==
    \E i \in 1..Len(values) : PatternMatches(pattern, Casefold(StrOf(values[i])))

SubstringOf(node, got) ==
    IF got.st # "ok" THEN [ res |-> got.st, entry |-> got.entry ]
    ELSE [ res |-> Bool(AnyMatches(got.values, normalised(node.pattern))), entry |-> got.entry ]

\* SubstringNode.evaluate
EvalSubstring(node, entry) == SubstringOf(node, LeafValues(node.attr, entry))

\* NotNode.evaluate returning its child's result as it is
EvalNot_Same(r) == r

\* NotNode.evaluate: `not self.node.evaluate(ctx)`; an exception passes through
EvalNot(r) ==
    [ res |-> IF r.res = "T" THEN "F" ELSE IF r.res = "F" THEN "T" ELSE r.res,
      entry |-> r.entry ]

RECURSIVE Evaluate(_, _)
RECURSIVE EvalAll(_, _)
RECURSIVE AllRest(_, _)
RECURSIVE EvalAny(_, _)
RECURSIVE AnyRest(_, _)

\* the rest of the children evaluated whatever the child gave
AllRest_Eager(nodes, r) ==
    IF r.res = "T" THEN EvalAll(Tail(nodes), r.entry)
    ELSE IF r.res = "F" THEN [ res |-> "F", entry |-> EvalAll(Tail(nodes), r.entry).entry ]
    ELSE r

AllRest(nodes, r) == IF r.res = "T" THEN EvalAll(Tail(nodes), r.entry) ELSE r

\* AndNode.evaluate: all(...) stops at the first child that is not true
EvalAll(nodes, entry) ==
    IF nodes = <<>> THEN [ res |-> "T", entry |-> entry ]
    ELSE AllRest(nodes, Evaluate(Head(nodes), entry))

AnyRest(nodes, r) == IF r.res = "F" THEN EvalAny(Tail(nodes), r.entry) ELSE r

\* OrNode.evaluate: any(...) stops at the first child that is not false
EvalAny(nodes, entry) ==
    IF nodes = <<>> THEN [ res |-> "F", entry |-> entry ]
    ELSE AnyRest(nodes, Evaluate(Head(nodes), entry))

\* FilterNode.evaluate(ctx): "T", "F" or the exception that escapes, and the
\* entry with the caches the evaluation filled
Evaluate(node, entry) ==
    CASE node.kind = "And" -> EvalAll(node.nodes, entry)
      [] node.kind = "Or" -> EvalAny(node.nodes, entry)
      [] node.kind = "Not" -> EvalNot(Evaluate(node.node, entry))
      [] node.kind = "Presence" -> EvalPresence(node, entry)
      [] node.kind = "Equality" -> EvalEquality(node, entry)
      [] node.kind = "Substring" -> EvalSubstring(node, entry)

-----------------------------------------------------------------------------
(* Parser: positions are Python's 0-based self.pos, so data[pos] of the     *)
(* source is text[pos + 1] here.                                            *)

NoNode == [ kind |-> "none" ]
Raise(exc, pos) == [ st |-> exc, pos |-> pos, node |-> NoNode ]
Parsed(node, pos) == [ st |-> "ok", pos |-> pos, node |-> node ]

\* Parser._skip_spaces: the position it leaves
RECURSIVE _skip_spaces(_, _)
_skip_spaces(text, pos) ==
    IF pos < Len(text) /\ IsSpace(text[pos + 1]) THEN _skip_spaces(text, pos + 1) ELSE pos

\* Parser._expect of a one-character token: "ok" and the position after it, or
\* FilterSyntaxError (from _peek at the end of the text, or on another character)
_expect(text, pos, token) ==
    IF pos >= Len(text) THEN [ st |-> "FilterSyntaxError", pos |-> pos ]
    ELSE IF text[pos + 1] # token THEN [ st |-> "FilterSyntaxError", pos |-> pos ]
    ELSE [ st |-> "ok", pos |-> pos + 1 ]

\* the scan of Parser._parse_attribute: it stops at one of = ~ > < ( or at the end
RECURSIVE AttributeEnd(_, _)
AttributeEnd(text, pos) ==
    IF pos < Len(text) /\ text[pos + 1] \notin { "=", "~", ">", "<", "(" }
    THEN AttributeEnd(text, pos + 1)
    ELSE pos

AttributeTo(text, start, stop) ==
    IF start = stop THEN [ st |-> "FilterSyntaxError", pos |-> stop, attr |-> <<>> ]
    ELSE [ st |-> "ok", pos |-> stop, attr |-> Strip(SubSeq(text, start + 1, stop)) ]

\* Parser._parse_attribute
_parse_attribute(text, start) == AttributeTo(text, start, AttributeEnd(text, start))

EscapeOf(pos, r) ==
    IF r.ok THEN [ st |-> "ok", pos |-> pos + 2, byte |-> r.n ]
    ELSE [ st |-> "FilterSyntaxError", pos |-> pos + 2, byte |-> 0 ]

\* Parser._parse_escape, called with pos just after the backslash
_parse_escape(text, pos) ==
    IF pos + 2 > Len(text) THEN [ st |-> "FilterSyntaxError", pos |-> pos, byte |-> 0 ]
    ELSE EscapeOf(pos, ParseInt(SubSeq(text, pos + 1, pos + 2), 16))

\* bytearray.append(b) takes 0 <= b < 256 and raises ValueError otherwise
ByteOk(b) == 0 <= b /\ b < 256

ValueStop(exc, pos, segments, star_count) ==
    [ st |-> exc, pos |-> pos, segments |-> segments, star_count |-> star_count ]

\* Parser._parse_value_segments: the loop, carrying segments, buf, star_count
RECURSIVE ValueLoop(_, _, _, _, _)
RECURSIVE AppendByte(_, _, _, _, _, _)
RECURSIVE AppendEscape(_, _, _, _, _)

\* buf.append(b), then the loop goes on at position next
AppendByte(text, next, segments, buf, star_count, b) ==
    IF ~ByteOk(b) THEN ValueStop("ValueError", next, segments, star_count)
    ELSE ValueLoop(text, next, segments, Append(buf, b), star_count)

\* buf.append(self._parse_escape())
AppendEscape(text, segments, buf, star_count, e) ==
    IF e.st # "ok" THEN ValueStop(e.st, e.pos, segments, star_count)
    ELSE AppendByte(text, e.pos, segments, buf, star_count, e.byte)

ValueLoop(text, pos, segments, buf, star_count) ==
    IF pos >= Len(text) THEN ValueStop("FilterSyntaxError", pos, segments, star_count)
    ELSE IF text[pos + 1] = ")" THEN ValueStop("ok", pos, Append(segments, buf), star_count)
    ELSE IF text[pos + 1] = "*"
    THEN ValueLoop(text, pos + 1, Append(segments, buf), <<>>, star_count + 1)
    ELSE IF text[pos + 1] = "\\"
    THEN AppendEscape(text, segments, buf, star_count, _parse_escape(text, pos + 1))
    ELSE AppendByte(text, pos + 1, segments, buf, star_count, Ord(text[pos + 1]))

_parse_value_segments(text, pos) == ValueLoop(text, pos, <<>>, <<>>, 0)

\* the pattern with every interior segment kept, the empty ones too
PatternOf_KeepsEmpty(segments_str) ==
    SubstringPattern(
        IF segments_str[1] # <<>> THEN Anchor(segments_str[1]) ELSE NoAnchor,
        SubSeq(segments_str, 2, Len(segments_str) - 1),
        IF segments_str[Len(segments_str)] # <<>>
        THEN Anchor(segments_str[Len(segments_str)]) ELSE NoAnchor)

\* initial, any = [seg for seg in segments_str[1:-1] if seg], final
PatternOf(segments_str) ==
    SubstringPattern(
        IF segments_str[1] # <<>> THEN Anchor(segments_str[1]) ELSE NoAnchor,
        SelectSeq(SubSeq(segments_str, 2, Len(segments_str) - 1), LAMBDA seg : seg # <<>>),
        IF segments_str[Len(segments_str)] # <<>>
        THEN Anchor(segments_str[Len(segments_str)]) ELSE NoAnchor)

\* Parser._build_substring_pattern
_build_substring_pattern(segments) ==
    PatternOf([ i \in 1..Len(segments) |-> as_str(segments[i]) ])

\* the classification of an item by its stars, and the closing parenthesis
ItemNode(attr, v) ==
    IF v.st # "ok" THEN Raise(v.st, v.pos)
    ELSE IF v.star_count = 1 /\ v.segments = << <<>>, <<>> >>
    THEN Parsed(PresenceNode(attr), v.pos + 1)
    ELSE IF v.star_count >= 1
    THEN Parsed(SubstringNode(attr, _build_substring_pattern(v.segments)), v.pos + 1)
    ELSE Parsed(EqualityNode(attr, v.segments[1]), v.pos + 1)

ItemValue(text, attr, eq) ==
    IF eq.st # "ok" THEN Raise(eq.st, eq.pos)
    ELSE ItemNode(attr, _parse_value_segments(text, eq.pos))

ItemAttr(text, a) ==
    IF a.st # "ok" THEN Raise(a.st, a.pos)
    ELSE ItemValue(text, a.attr, _expect(text, a.pos, "="))

\* the item branch of Parser._parse_filter, entered at the attribute name
ParseItem(text, pos) == ItemAttr(text, _parse_attribute(text, pos))

\* the & and | branches without their `if not nodes: raise ...`
ListNode_NoEmptyCheck(nodes, op, close) ==
    IF close.st # "ok" THEN Raise(close.st, close.pos)
    ELSE Parsed(IF op = "&" THEN AndNode(nodes) ELSE OrNode(nodes), close.pos)

\* `if not nodes: raise FilterSyntaxError("Empty AND expression")`, else the node
ListNode(nodes, op, close) ==
    IF close.st # "ok" THEN Raise(close.st, close.pos)
    ELSE IF nodes = <<>> THEN Raise("FilterSyntaxError", close.pos)
    ELSE Parsed(IF op = "&" THEN AndNode(nodes) ELSE OrNode(nodes), close.pos)

\* the end of an & or | body: _expect(")"), then the check for an empty list
CloseList(text, pos, nodes, op) == ListNode(nodes, op, _expect(text, pos, ")"))

\* `self._expect(")"); return NotNode(node)`
CloseNot(child, close) ==
    IF close.st # "ok" THEN Raise(close.st, close.pos)
    ELSE Parsed(NotNode(child.node), close.pos)

RECURSIVE _parse_filter(_, _)
RECURSIVE FilterBody(_, _)
RECURSIVE FilterOpen(_, _)
RECURSIVE ParseList(_, _, _, _)
RECURSIVE ListAt(_, _, _, _)
RECURSIVE ListChild(_, _, _, _)
RECURSIVE NotChild(_, _)

ListChild(text, nodes, op, child) ==
    IF child.st # "ok" THEN child
    ELSE ParseList(text, child.pos, Append(nodes, child.node), op)

ListAt(text, p, nodes, op) ==
    IF p >= Len(text) THEN Raise("FilterSyntaxError", p)
    ELSE IF text[p + 1] # "(" THEN CloseList(text, p, nodes, op)
    ELSE ListChild(text, nodes, op, _parse_filter(text, p))

\* the `while True` loop of the & and | branches
ParseList(text, pos, nodes, op) == ListAt(text, _skip_spaces(text, pos), nodes, op)

NotChild(text, child) ==
    IF child.st # "ok" THEN child
    ELSE CloseNot(child, _expect(text, child.pos, ")"))

\* after "(" and the spaces that follow it: the operator or the item
FilterBody(text, p) ==
    IF p >= Len(text) THEN Raise("FilterSyntaxError", p)
    ELSE IF text[p + 1] \in { "&", "|" } THEN ParseList(text, p + 1, <<>>, text[p + 1])
    ELSE IF text[p + 1] = "!" THEN NotChild(text, _parse_filter(text, p + 1))
    ELSE ParseItem(text, p)

FilterOpen(text, open) ==
    IF open.st # "ok" THEN Raise(open.st, open.pos)
    ELSE FilterBody(text, _skip_spaces(text, open.pos))

\* Parser._parse_filter
_parse_filter(text, pos) == FilterOpen(text, _expect(text, _skip_spaces(text, pos), "("))

\* `if self.pos != self.length: raise FilterSyntaxError(...)`
ParseEnd(text, r) ==
    IF r.st # "ok" THEN r
    ELSE IF _skip_spaces(text, r.pos) # Len(text) THEN Raise("FilterSyntaxError", r.pos)
    ELSE r

\* Parser.parse / parse_filter
parse_filter(text) == ParseEnd(text, _parse_filter(text, 0))

-----------------------------------------------------------------------------
(* The snapshots, filters and limits the model runs *)

Pair(i, payload) == [ idx |-> i, payload |-> payload ]
Record(mapping) == [ header_ok |-> TRUE, mapping |-> mapping ]

T_al == << "a", "l" >>
T_bo == << "b", "o" >>
T_cn == << "c", "n" >>
T_CN == << "C", "N" >>
T_u == << "u" >>
T_zz == << "z", "z" >>

RecAlice == Record(<< Pair(0, Payload(<< T_al >>)), Pair(1, Payload(<< 8 >>)) >>)
RecBob == Record(<< Pair(0, Payload(<< T_bo >>)) >>)
RecNoCn == Record(<< Pair(1, Payload(<< 2, 8 >>)), Pair(2, Payload(<< 1 >>)) >>)
RecEmptyCn == Record(<< Pair(0, EmptyPayload) >>)
RecShortPayload == Record(<< Pair(0, ShortPayload), Pair(1, Payload(<< 8 >>)) >>)
RecShortHeader == [ header_ok |-> FALSE, mapping |-> <<>> ]
RecUac514 == Record(<< Pair(0, Payload(<< T_al >>)), Pair(1, Payload(<< 514 >>)) >>)

\* string values of cn: distinguished names, and names for substring scans
T_dn == << "n", "=", "A", "l", ",", "c", "=", "x" >>
T_spaced == << "n", "=", " ", "a", "l" >>
T_comma == << "a", ",", "n", "=", "a", "l" >>
T_alice == << "a", "l", "i", "c", "e" >>
T_AlAl == << "A", "l", "a", "l" >>
T_lla == << "l", "l", "a" >>

RecDn == Record(<< Pair(0, Payload(<< T_dn >>)) >>)
RecSpacedDn == Record(<< Pair(0, Payload(<< T_spaced >>)) >>)
RecCommaFirst == Record(<< Pair(0, Payload(<< T_comma >>)) >>)
RecBoAlice == Record(<< Pair(0, Payload(<< T_bo, T_alice >>)) >>)
RecAlAl == Record(<< Pair(0, Payload(<< T_AlAl >>)) >>)
RecLla == Record(<< Pair(0, Payload(<< T_lla >>)) >>)

Records == { RecAlice, RecBob, RecNoCn, RecEmptyCn, RecShortPayload, RecShortHeader }

Snapshots == SeqsUpTo(Records, MaxEntries)

Bytes(text) == [ i \in 1..Len(text) |-> Ord(text[i]) ]

SearchFilters ==
    { PresenceNode(T_cn),
      EqualityNode(T_CN, Bytes(T_al)),
      NotNode(EqualityNode(T_cn, Bytes(T_al))),
      AndNode(<< PresenceNode(T_u), PresenceNode(T_cn) >>),
      PresenceNode(T_zz) }

NoLimit == [ set |-> FALSE, n |-> 0 ]
Limit(n) == [ set |-> TRUE, n |-> n ]
Limits == { NoLimit } \cup { Limit(n) : n \in (0 - 1)..MaxLimit }

Unparsed == Raise("unparsed", 0)
NoEntry == NewEntry(RecShortHeader).entry

-----------------------------------------------------------------------------
(* QueryEngine.search(): one action is one next() of the consumer, which    *)
(* runs the generator to its next yield, to its end, or to an exception.    *)
(* duration_seconds, a wall-clock reading, is left out of the stats record. *)

\* QueryStats built with its two counters exchanged
QueryStats_Swapped(entries_evaluated, n_matches) ==
    [ entries_evaluated |-> n_matches, matches |-> entries_evaluated ]

QueryStats(entries_evaluated, n_matches) ==
    [ entries_evaluated |-> entries_evaluated, matches |-> n_matches ]

ScanStop(out, i, c, e) == [ out |-> out, idx |-> i, constructed |-> c, evaluated |-> e ]

\* the for loop of search() from offset position i on: it stops at the first
\* entry whose evaluation is true ("yield"), at the end of the offset index
\* ("end"), or at the first exception of SnapshotEntry() or evaluate() ("raise")
RECURSIVE Scan(_, _, _, _, _)
RECURSIVE ScanEntry(_, _, _, _, _, _)
RECURSIVE ScanResult(_, _, _, _, _, _)

\* `evaluated += 1`, then `if self.filter_node.evaluate(ctx):`
ScanResult(snap, node, i, c, e, res) ==
    IF res = "T" THEN ScanStop("yield", i + 1, c + 1, e + 1)
    ELSE IF res = "F" THEN Scan(snap, node, i + 1, c + 1, e + 1)
    ELSE ScanStop("raise", i + 1, c + 1, e + 1)

\* iter_entries() builds SnapshotEntry(self, offset)
ScanEntry(snap, node, i, c, e, made) ==
    IF made.st # "ok" THEN ScanStop("raise", i + 1, c, e)
    ELSE ScanResult(snap, node, i, c, e, Evaluate(node, made.entry).res)

Scan(snap, node, i, c, e) ==
    IF i = Len(snap) THEN ScanStop("end", i, c, e)
    ELSE ScanEntry(snap, node, i, c, e, NewEntry(snap[i + 1]))

\* `if self.limit is not None and matches >= self.limit: break`
LimitReached(lim, n_matches) == lim.set /\ n_matches >= lim.n

\* the consumer may call next(): the generator is fresh or stands at its yield
Resumable == mode = "search" /\ pc \in { "created", "yielded" }

\* the generator, resumed after a yield, leaves the loop at once
Breaks == pc = "yielded" /\ LimitReached(limit, matches)

\* no snapshot file is being opened
NoFile == [ is_file |-> FALSE ]
NoReader == [ st |-> "-" ]
NoAsk == [ name |-> <<>>, result |-> NoProperty, made |-> FALSE ]

NoSelection == [ given |-> FALSE, names |-> <<>> ]
Selection(names) == [ given |-> TRUE, names |-> names ]
NoEngine == [ built |-> FALSE, selected |-> NoSelection, unknown |-> <<>> ]
NoRecord == [ made |-> FALSE, call |-> "-", selection |-> NoSelection, st |-> "-", items |-> <<>> ]

\* no search was run before: engine.stats is the QueryStats() of __init__
NoRun == [ made |-> FALSE, ignore_case |-> FALSE, yielded |-> <<>>, records |-> << >>,
           pc |-> "-", stats_before |-> QueryStats(0, 0) ]

RunIdle == ignore_case = FALSE /\ records = << >> /\ previous = NoRun

ProjectIdle == attributes = NoSelection /\ engine = NoEngine /\ pj_entry = NoEntry /\ pj_out = NoRecord

LookupIdle == lk_record = RecShortHeader /\ lk_entry = NoEntry /\ lk_calls = <<>>

\* nothing opened, no with-block entered, close() not called
NoSource == [ fh |-> "unopened", mmap |-> "unopened" ]
NoBlock == [ with |-> "-", close_calls |-> 0 ]

\* no stored image is being read
StreamIdle == image = <<>> /\ fh_pos = 0

OpenIdle ==
    /\ file = NoFile /\ use_mmap = FALSE /\ reader = NoReader /\ asked = NoAsk
    /\ source = NoSource /\ block = NoBlock
    /\ StreamIdle

\* no search is being run
SearchIdle ==
    /\ snapshot = <<>>
    /\ filter_node = NoNode
    /\ limit = NoLimit
    /\ pc = "created"
    /\ idx = 0
    /\ constructed = 0
    /\ evaluated = 0
    /\ matches = 0
    /\ yielded = <<>>
    /\ stats = QueryStats(0, 0)

ParseIdle == data = <<>> /\ parsed = Unparsed

EvalIdle == ev_entry = NoEntry /\ ev_node = NoNode /\ ev_res = "-" /\ ev_not = "-"

InitSearch ==
    /\ mode = "search"
    /\ snapshot \in Snapshots
    /\ filter_node \in SearchFilters
    /\ limit \in Limits
    /\ pc = "created"
    /\ idx = 0
    /\ constructed = 0
    /\ evaluated = 0
    /\ matches = 0
    /\ yielded = <<>>
    /\ stats = QueryStats(0, 0)
    /\ data = <<>>
    /\ parsed = Unparsed
    /\ ev_entry = NoEntry
    /\ ev_node = NoNode
    /\ ev_res = "-"
    /\ ev_not = "-"
    /\ OpenIdle /\ LookupIdle /\ ProjectIdle /\ RunIdle

\* the yield, with the statistics stored at each result
Yields_StoresStats(step) ==
    /\ step.out = "yield"
    /\ pc' = "yielded"
    /\ idx' = step.idx
    /\ constructed' = step.constructed
    /\ evaluated' = step.evaluated
    /\ matches' = matches + 1
    /\ yielded' = Append(yielded, step.idx)
    /\ stats' = QueryStats(step.evaluated, matches + 1)
    /\ UNCHANGED << mode, snapshot, filter_node, limit, parseVars, evalVars, openVars, lookupVars, projectVars, runVars, sourceVars, streamVars >>

Yields(step) ==
    /\ step.out = "yield"
    /\ pc' = "yielded"
    /\ idx' = step.idx
    /\ constructed' = step.constructed
    /\ evaluated' = step.evaluated
    /\ matches' = matches + 1
    /\ yielded' = Append(yielded, step.idx)
    /\ UNCHANGED << mode, snapshot, filter_node, limit, stats, parseVars, evalVars, openVars, lookupVars, projectVars, runVars, sourceVars, streamVars >>

Exhausts(step) ==
    /\ step.out = "end"
    /\ pc' = "done"
    /\ idx' = step.idx
    /\ constructed' = step.constructed
    /\ evaluated' = step.evaluated
    /\ stats' = QueryStats(step.evaluated, matches)
    /\ UNCHANGED << mode, snapshot, filter_node, limit, matches, yielded, parseVars, evalVars, openVars, lookupVars, projectVars, runVars, sourceVars, streamVars >>

Raises(step) ==
    /\ step.out = "raise"
    /\ pc' = "raised"
    /\ idx' = step.idx
    /\ constructed' = step.constructed
    /\ evaluated' = step.evaluated
    /\ UNCHANGED << mode, snapshot, filter_node, limit, matches, yielded, stats,
                    parseVars, evalVars, openVars, lookupVars, projectVars, runVars, sourceVars, streamVars >>

\* next(): the loop reaches an entry that matches and yields it
NextYields ==
    Resumable /\ ~Breaks /\ Yields(Scan(snapshot, filter_node, idx, constructed, evaluated))

\* next(): the loop runs off the end of the offset index; the stats are stored
NextExhausts ==
    Resumable /\ ~Breaks /\ Exhausts(Scan(snapshot, filter_node, idx, constructed, evaluated))

\* next(): SnapshotEntry() or evaluate() raises; nothing in search() catches it
NextRaises ==
    Resumable /\ ~Breaks /\ Raises(Scan(snapshot, filter_node, idx, constructed, evaluated))

\* next() after a yield with the limit reached: break, then the stats are stored
NextBreaks ==
    /\ Resumable /\ Breaks
    /\ pc' = "done"
    /\ stats' = QueryStats(evaluated, matches)
    /\ UNCHANGED << mode, snapshot, filter_node, limit, idx, constructed, evaluated,
                    matches, yielded, parseVars, evalVars, openVars, lookupVars, projectVars, runVars, sourceVars, streamVars >>

\* the consumer drops the iterator: the generator is closed where it stands
Abandon ==
    /\ Resumable
    /\ pc' = "abandoned"
    /\ UNCHANGED << mode, snapshot, filter_node, limit, idx, constructed, evaluated,
                    matches, yielded, stats, parseVars, evalVars, openVars, lookupVars, projectVars, runVars, sourceVars, streamVars >>

NextSearch == NextYields \/ NextExhausts \/ NextRaises \/ NextBreaks \/ Abandon

Spec == InitSearch /\ [][NextSearch]_vars

-----------------------------------------------------------------------------
(* parse_filter() on bounded filter texts *)

ValueAlphabet == { "a", "*", "\\", "2", "+", "-" }

ItemOpen == << "(", "a", "=" >>

\* an item "(a=<value>" with and without its closing parenthesis
ValueInputs ==
    { ItemOpen \o v \o close : v \in SeqsUpTo(ValueAlphabet, MaxValueLen), close \in { <<>>, << ")" >> } }

Chunks ==
    { << "(", "&" >>, << "(", "|" >>, << "(", "!" >>, << "(", "a", "=", "a", ")" >>,
      << ")" >>, << " " >>, << "(" >> }

TreeInputs == { Flatten(cs) : cs \in SeqsUpTo(Chunks, MaxChunks) }

MaxWideLen == 2      \* longest value over the characters beyond one byte

\* items whose value holds a character with a code point above 255
WideInputs ==
    { ItemOpen \o v \o << ")" >> : v \in SeqsUpTo({ "a", "U+00A2", "U+20AC" }, MaxWideLen) }

ParserInputs == ValueInputs \cup TreeInputs \cup WideInputs

InitParse ==
    /\ mode = "parse"
    /\ data \in ParserInputs
    /\ parsed = Unparsed
    /\ snapshot = <<>>
    /\ filter_node = NoNode
    /\ limit = NoLimit
    /\ pc = "created"
    /\ idx = 0
    /\ constructed = 0
    /\ evaluated = 0
    /\ matches = 0
    /\ yielded = <<>>
    /\ stats = QueryStats(0, 0)
    /\ ev_entry = NoEntry
    /\ ev_node = NoNode
    /\ ev_res = "-"
    /\ ev_not = "-"
    /\ OpenIdle /\ LookupIdle /\ ProjectIdle /\ RunIdle

Pending == mode = "parse" /\ parsed = Unparsed

Returns(r) ==
    /\ r.st = "ok"
    /\ parsed' = r
    /\ UNCHANGED << mode, searchVars, data, evalVars, openVars, lookupVars, projectVars, runVars, sourceVars, streamVars >>

Throws(r) ==
    /\ r.st # "ok"
    /\ parsed' = r
    /\ UNCHANGED << mode, searchVars, data, evalVars, openVars, lookupVars, projectVars, runVars, sourceVars, streamVars >>

\* parse_filter(data) returns a filter tree
ParseReturns == Pending /\ Returns(parse_filter(data))

\* parse_filter(data) raises
ParseRaises == Pending /\ Throws(parse_filter(data))

NextParse == ParseReturns \/ ParseRaises

SpecParse == InitParse /\ [][NextParse]_vars

-----------------------------------------------------------------------------
(* FilterNode.evaluate() of a filter F and of NotNode(F) on one entry *)

EvalRecords ==
    { RecAlice, RecBob, RecNoCn, RecEmptyCn, RecShortPayload, RecUac514,
      RecDn, RecSpacedDn, RecCommaFirst, RecBoAlice, RecAlAl, RecLla }

EvalEntries == { NewEntry(rec).entry : rec \in EvalRecords }

NeedleAlphabet == { "0", "1", "8", "x", "o" }

Needles ==
    SeqsUpTo(NeedleAlphabet, MaxNeedleLen)
        \cup { << "5", "1", "4" >>, << "0", "x", "2", "0", "2" >>, << "0", "1", "0", "0", "2" >>,
               << "0", "o", "1", "0", "0", "2" >> }

\* (u=<needle>) as the parser builds it
NeedleFilters == { parse_filter(<< "(", "u", "=" >> \o t \o << ")" >>).node : t \in Needles }

Leaves ==
    { PresenceNode(T_cn), PresenceNode(T_u), PresenceNode(T_zz),
      EqualityNode(T_CN, Bytes(T_al)), EqualityNode(T_cn, Bytes(T_bo)),
      EqualityNode(T_zz, Bytes(T_al)),
      SubstringNode(T_cn, SubstringPattern(Anchor(<< "a" >>), <<>>, NoAnchor)),
      SubstringNode(T_zz, SubstringPattern(NoAnchor, << T_al >>, NoAnchor)),
      SubstringNode(T_u, SubstringPattern(NoAnchor, <<>>, Anchor(<< "8" >>))) }

TreeFilters ==
    Leaves \cup { NotNode(f) : f \in Leaves }
           \cup { AndNode(<< f, g >>) : f \in Leaves, g \in Leaves }
           \cup { OrNode(<< f, g >>) : f \in Leaves, g \in Leaves }

StringValues == { T_al, T_bo, T_dn, T_spaced, T_comma, T_alice, T_AlAl, T_lla }

PiecesOf(v) == { IF i <= j THEN SubSeq(v, i, j) ELSE <<>> : i \in 1..Len(v), j \in 1..Len(v) }

Pieces == UNION { PiecesOf(v) : v \in StringValues }

\* the needles of (cn=<needle>): every piece of a stored value, as stored and lowered
StringNeedles == Pieces \cup { Lower(t) : t \in Pieces }

StringFilters == { EqualityNode(T_cn, Bytes(t)) : t \in StringNeedles }

PatternAlphabet == { "a", "l", "*" }

\* the values of (cn=<value>) with stars, and the two of the documentation
PatternTexts ==
    SeqsUpTo(PatternAlphabet, MaxPatternLen) \cup { << "a", "l", "*", "z" >>, << "*", "l", "i", "*", "e" >> }

PatternFilters ==
    { parse_filter(<< "(", "c", "n", "=" >> \o v \o << ")" >>).node : v \in PatternTexts \ { <<>> } }

\* And and Or over three children
Triples == { << f, g, h >> : f \in { PresenceNode(T_cn), PresenceNode(T_u), EqualityNode(T_cn, Bytes(T_bo)) },
                             g \in { PresenceNode(T_cn), PresenceNode(T_u), EqualityNode(T_cn, Bytes(T_bo)) },
                             h \in { PresenceNode(T_cn), PresenceNode(T_u), PresenceNode(T_zz) } }

TripleFilters == { AndNode(t) : t \in Triples } \cup { OrNode(t) : t \in Triples }

EvalFilters == NeedleFilters \cup TreeFilters \cup StringFilters \cup PatternFilters \cup TripleFilters

InitEval ==
    /\ mode = "eval"
    /\ ev_entry \in EvalEntries
    /\ ev_node \in EvalFilters
    /\ ev_res = "-"
    /\ ev_not = "-"
    /\ snapshot = <<>>
    /\ filter_node = NoNode
    /\ limit = NoLimit
    /\ pc = "created"
    /\ idx = 0
    /\ constructed = 0
    /\ evaluated = 0
    /\ matches = 0
    /\ yielded = <<>>
    /\ stats = QueryStats(0, 0)
    /\ data = <<>>
    /\ parsed = Unparsed
    /\ OpenIdle /\ LookupIdle /\ ProjectIdle /\ RunIdle

EvaluatedF(r) ==
    /\ ev_res' = r.res
    /\ ev_entry' = r.entry
    /\ UNCHANGED << mode, searchVars, parseVars, ev_node, ev_not, openVars, lookupVars, projectVars, runVars, sourceVars, streamVars >>

EvaluatedNot(r) ==
    /\ ev_not' = r.res
    /\ ev_entry' = r.entry
    /\ UNCHANGED << mode, searchVars, parseVars, ev_node, ev_res, openVars, lookupVars, projectVars, runVars, sourceVars, streamVars >>

\* ev_node.evaluate(ctx) on the entry
EvaluateF == mode = "eval" /\ ev_res = "-" /\ EvaluatedF(Evaluate(ev_node, ev_entry))

\* NotNode(ev_node).evaluate(ctx) on the same entry
EvaluateNot == mode = "eval" /\ ev_not = "-" /\ EvaluatedNot(Evaluate(NotNode(ev_node), ev_entry))

NextEval == EvaluateF \/ EvaluateNot

SpecEval == InitEval /\ [][NextEval]_vars

-----------------------------------------------------------------------------
(* SnapshotReader: opening a snapshot file *)

\* 0x43E: the length of the header, and the offset of the first object record
HeaderBytes == 1086
\* the bytes of a schema record besides its name and its DN: two lengths, two
\* words, two GUIDs and the unused blob
PropertyFixedBytes == 52

\* A file is described by what the reader finds in it: whether the path is a
\* regular file, its length, the header's counts and mapping-offset halves,
\* the schema records stored at the mapping offset, and for the k-th step of
\* the walk over the object records the u32 that stands at the walk's position
\* (sizes[k]; the walk's positions follow from the sizes before).
SnapshotFile(size, num_objects, high, low, schema, sizes) ==
    [ is_file |-> TRUE, size |-> size, num_objects |-> num_objects,
      fileoffset_high |-> high, fileoffset_low |-> low,
      schema |-> schema, sizes |-> sizes ]

Failed(kind) == [ st |-> kind ]

\* _read_exact(fh, n) at pos: the bytes are there, or EOFError
ReadExact(f, pos, n) == pos + n <= f.size

\* (fileoffset_high << 32) | fileoffset_low, kept as its two halves
MappingOffset(f) == [ high |-> f.fileoffset_high, low |-> f.fileoffset_low ]

\* the offset lies past the end of the file
PastEnd(offset, size) == offset.high > 0 \/ offset.low > size

\* SnapshotReader._parse_header
_parse_header(f) ==
    IF ~ReadExact(f, 0, HeaderBytes) THEN Failed("EOFError")
    ELSE [ st |-> "ok", num_objects |-> f.num_objects,
           mapping_offset |-> MappingOffset(f), file_size |-> f.size ]

\* the bytes of the schema record of a property
PropertyBytes(prop) == 2 * Len(prop.name) + PropertyFixedBytes

RECURSIVE SchemaBytes(_, _)
SchemaBytes(schema, n) ==
    IF n = 0 THEN 0 ELSE SchemaBytes(schema, n - 1) + PropertyBytes(schema[n])

\* by_name[prop_name.lower()] = idx, keeping the first index of a name
Remember_FirstWins(by_name, key, i) ==
    IF key \in DOMAIN by_name THEN by_name
    ELSE [ k \in DOMAIN by_name \cup { key } |-> IF k = key THEN i ELSE by_name[k] ]

\* by_name[prop_name.lower()] = i
Remember(by_name, key, i) ==
    [ k \in DOMAIN by_name \cup { key } |-> IF k = key THEN i ELSE by_name[k] ]

\* the loop of _parse_properties from record i on, the cursor at pos
RECURSIVE ReadProperties(_, _, _, _, _)
ReadProperties(f, i, pos, properties, by_name) ==
    IF i = Len(f.schema) THEN [ st |-> "ok", properties |-> properties, by_name |-> by_name ]
    ELSE IF ~ReadExact(f, pos, PropertyBytes(f.schema[i + 1])) THEN Failed("EOFError")
    ELSE ReadProperties(f, i + 1, pos + PropertyBytes(f.schema[i + 1]),
                        Append(properties, [ index |-> i, name |-> f.schema[i + 1].name,
                                             ads_type |-> f.schema[i + 1].ads_type ]),
                        Remember(by_name, Lower(f.schema[i + 1].name), i))

\* SnapshotReader._parse_properties: a memory map refuses a seek past its end
_parse_properties(f, mm, offset) ==
    IF mm /\ PastEnd(offset, f.size) THEN Failed("ValueError")
    ELSE IF PastEnd(offset, f.size) \/ ~ReadExact(f, offset.low, 4) THEN Failed("EOFError")
    ELSE ReadProperties(f, 0, offset.low + 4, <<>>, << >>)

\* the seek to pos + obj_size that ends a step of the walk
RECURSIVE WalkObjects(_, _, _, _, _)
SeekNext(f, mm, k, next, offsets) ==
    IF mm /\ next > f.size THEN Failed("ValueError")
    ELSE WalkObjects(f, mm, k + 1, next, offsets)

\* the loop of _parse_object_offsets at its step k (from 0), the cursor at pos
WalkObjects(f, mm, k, pos, offsets) ==
    IF k = f.num_objects \/ ~ReadExact(f, pos, 4) THEN [ st |-> "ok", offsets |-> offsets ]
    ELSE SeekNext(f, mm, k, pos + f.sizes[k + 1], Append(offsets, pos))

\* SnapshotReader._parse_object_offsets
_parse_object_offsets(f, mm) == WalkObjects(f, mm, 0, HeaderBytes, <<>>)

OpenedReader(header, schema, index) ==
    IF index.st # "ok" THEN Failed(index.st)
    ELSE [ st |-> "open", header |-> header, properties |-> schema.properties,
           by_name |-> schema.by_name, offsets |-> index.offsets ]

WithProperties(f, mm, header, schema) ==
    IF schema.st # "ok" THEN Failed(schema.st)
    ELSE OpenedReader(header, schema, _parse_object_offsets(f, mm))

WithHeader(f, mm, header) ==
    IF header.st # "ok" THEN Failed(header.st)
    ELSE WithProperties(f, mm, header, _parse_properties(f, mm, header.mapping_offset))

\* SnapshotReader.__init__: mmap.mmap refuses an empty file
SnapshotReader(f, mm) ==
    IF ~f.is_file THEN Failed("FileNotFoundError")
    ELSE IF mm /\ f.size = 0 THEN Failed("ValueError")
    ELSE WithHeader(f, mm, _parse_header(f))

\* SnapshotReader.get_property on an open reader
PropertyNamed(rd, key) ==
    IF key \in DOMAIN rd.by_name THEN FoundProperty(rd.properties[rd.by_name[key] + 1])
    ELSE NoProperty

\* ---- the files

MaxProperties == 2   \* records of a schema table
MaxRecords == 2      \* object records of a file

PropertyNames == { << "C", "n" >>, << "c", "n" >>, << "u" >>, <<>> }

SchemaRecord(name) == [ name |-> name, ads_type |-> ADSTYPE_CASE_IGNORE_STRING ]

Schemas == SeqsUpTo({ SchemaRecord(n) : n \in PropertyNames }, MaxProperties)

RecordSizes == { 4, 8 }

RECURSIVE Sum(_, _)
Sum(sizes, n) == IF n = 0 THEN 0 ELSE Sum(sizes, n - 1) + sizes[n]

SchemaLength(schema) == 4 + SchemaBytes(schema, Len(schema))

\* header, object records, schema table; the mapping offset points at the table
WholeFile(schema, sizes, num_objects) ==
    SnapshotFile(HeaderBytes + Sum(sizes, Len(sizes)) + SchemaLength(schema), num_objects,
                 0, HeaderBytes + Sum(sizes, Len(sizes)), schema, sizes)

\* whole files whose header counts no more records than there are
CountedFiles(schema, sizes) == { WholeFile(schema, sizes, n) : n \in 0..Len(sizes) }

WholeFiles ==
    UNION { CountedFiles(schema, sizes) :
                schema \in Schemas, sizes \in SeqsUpTo(RecordSizes, MaxRecords) }

\* the file cut to a shorter length
CutTo(f, size) == [ f EXCEPT !.size = size ]

\* lengths at which a whole file is cut: nothing, inside the header, the header
\* alone, at and inside the schema's count, inside and at the end of the table
CutLengths(f) ==
    { 0, 100, HeaderBytes, f.fileoffset_low, f.fileoffset_low + 2,
      f.fileoffset_low + 4, f.size - 1 }

CutFiles ==
    UNION { { CutTo(WholeFile(schema, << 8 >>, 1), n) : n \in CutLengths(WholeFile(schema, << 8 >>, 1)) } :
                schema \in Schemas }

\* the file with other mapping-offset halves
Remapped(f, high, low) == [ f EXCEPT !.fileoffset_high = high, !.fileoffset_low = low ]

RemappedOf(f) ==
    { Remapped(f, 0, f.size), Remapped(f, 0, f.size + 1), Remapped(f, 1, f.fileoffset_low) }

RemappedFiles == UNION { RemappedOf(WholeFile(schema, << 8 >>, 1)) : schema \in Schemas }

\* how the object records of a short file end: at the end of the last record,
\* inside the size field of a further record, or in a last record whose stated
\* size reaches past the end of the file
Tails == { "end", "short", "past" }

TailBytes(tail) == IF tail = "end" THEN 0 ELSE IF tail = "short" THEN 2 ELSE 8

TailSizes(tail) == IF tail = "past" THEN << 100 >> ELSE <<>>

\* header, a first record that spans the schema table, further records, and
\* the tail; the header counts num_objects records
ShortFile(schema, sizes, tail, num_objects) ==
    SnapshotFile(HeaderBytes + 4 + SchemaLength(schema) + Sum(sizes, Len(sizes)) + TailBytes(tail),
                 num_objects, 0, HeaderBytes + 4, schema,
                 << 4 + SchemaLength(schema) >> \o sizes \o TailSizes(tail))

ShortFiles ==
    { ShortFile(schema, sizes, tail, n) :
          schema \in { s \in Schemas : Len(s) <= 1 }, sizes \in SeqsUpTo(RecordSizes, MaxRecords),
          tail \in Tails, n \in 0..(MaxRecords + 3) }

Files == { NoFile } \cup WholeFiles \cup CutFiles \cup RemappedFiles \cup ShortFiles

\* names asked of get_property
AskedNames == PropertyNames \cup { << "C", "N" >>, << "c", "N" >>, << "U" >>, << "z", "z" >> }

MaxCloses == 1  \* calls of close() on one reader besides the exit of the with-block

\* what SnapshotReader.__init__ has opened when it returns or raises:
\* path.open("rb") after the is_file test, then mmap.mmap when use_mmap
OpenedSource(f, mm) ==
    IF ~f.is_file THEN NoSource
    ELSE [ fh |-> "open", mmap |-> IF mm /\ f.size > 0 THEN "open" ELSE "unopened" ]

\* SnapshotReader.close
Closed(src) ==
    [ fh |-> "closed", mmap |-> IF src.mmap = "unopened" THEN "unopened" ELSE "closed" ]

InitOpen ==
    /\ mode = "open"
    /\ file \in Files
    /\ use_mmap \in BOOLEAN
    /\ reader = NoReader
    /\ asked = NoAsk
    /\ source = NoSource
    /\ block = NoBlock
    /\ StreamIdle
    /\ SearchIdle /\ ParseIdle /\ EvalIdle /\ LookupIdle /\ ProjectIdle /\ RunIdle

Built(rd) ==
    /\ reader' = rd
    /\ source' = OpenedSource(file, use_mmap)
    /\ UNCHANGED << mode, searchVars, parseVars, evalVars, lookupVars, projectVars, runVars, file, use_mmap, asked, block, streamVars >>

\* SnapshotReader(path, use_mmap) returns a reader
Opens == mode = "open" /\ reader.st = "-" /\ SnapshotReader(file, use_mmap).st = "open"
             /\ Built(SnapshotReader(file, use_mmap))

\* SnapshotReader(path, use_mmap) raises
OpenRaises == mode = "open" /\ reader.st = "-" /\ SnapshotReader(file, use_mmap).st # "open"
                  /\ Built(SnapshotReader(file, use_mmap))

\* reader.get_property(name)
GetProperty(name) ==
    /\ mode = "open" /\ reader.st = "open"
    /\ asked' = [ name |-> name, result |-> PropertyNamed(reader, Lower(name)), made |-> TRUE ]
    /\ UNCHANGED << mode, searchVars, parseVars, evalVars, lookupVars, projectVars, runVars, file, use_mmap, reader, sourceVars, streamVars >>

\* reader.close()
Close ==
    /\ mode = "open" /\ reader.st = "open" /\ block.close_calls < MaxCloses
    /\ source' = Closed(source)
    /\ block' = [ block EXCEPT !.close_calls = @ + 1 ]
    /\ UNCHANGED << mode, searchVars, parseVars, evalVars, lookupVars, projectVars, runVars, openVars, streamVars >>

\* `with SnapshotReader(...) as reader:` enters its body
Enter ==
    /\ mode = "open" /\ reader.st = "open" /\ block = NoBlock
    /\ block' = [ block EXCEPT !.with = "entered" ]
    /\ UNCHANGED << mode, searchVars, parseVars, evalVars, lookupVars, projectVars, runVars, openVars, source, streamVars >>

\* the body is left, by its end or a return, or by an exception: __exit__
Exit(raised) ==
    /\ mode = "open" /\ block.with = "entered"
    /\ source' = Closed(source)
    /\ block' = [ block EXCEPT !.with = IF raised THEN "raised" ELSE "left" ]
    /\ UNCHANGED << mode, searchVars, parseVars, evalVars, lookupVars, projectVars, runVars, openVars, streamVars >>

\* the reader of a failed __init__ is unreachable; the interpreter finalises
\* its file object and memory map when it collects them
Collect ==
    /\ mode = "open" /\ reader.st \notin { "-", "open" } /\ source.fh = "open"
    /\ source' = Closed(source)
    /\ UNCHANGED << mode, searchVars, parseVars, evalVars, lookupVars, projectVars, runVars, openVars, block, streamVars >>

NextOpen ==
    \/ Opens
    \/ OpenRaises
    \/ \E name \in AskedNames : GetProperty(name)
    \/ Close
    \/ Enter
    \/ \E raised \in BOOLEAN : Exit(raised)
    \/ Collect

SpecOpen == InitOpen /\ [][NextOpen]_vars

-----------------------------------------------------------------------------
(* SnapshotEntry: attribute lookups on one entry *)

MaxLookups == 3      \* get_attribute_values calls on one entry

Blob_ab == << 171, 1 >>
Blob_cd == << 205 >>
T_o == << "o" >>

RecOctet == Record(<< Pair(0, Payload(<< T_al >>)), Pair(3, Payload(<< Blob_ab, Blob_cd >>)) >>)
\* two pairs of the same property
RecTwoPairs == Record(<< Pair(3, Payload(<< Blob_cd >>)), Pair(3, Payload(<< Blob_ab >>)) >>)
RecEmptyOctet == Record(<< Pair(3, EmptyPayload), Pair(1, Payload(<< 8 >>)) >>)
RecShortOctet == Record(<< Pair(3, ShortPayload), Pair(0, Payload(<< T_bo >>)) >>)

LookupRecords == { RecOctet, RecTwoPairs, RecEmptyOctet, RecShortOctet, RecNoCn }

LookupNames == { T_o, T_cn, T_CN, T_u, T_zz }

InitLookup ==
    /\ mode = "lookup"
    /\ lk_record \in LookupRecords
    /\ lk_entry = NewEntry(lk_record).entry
    /\ lk_calls = <<>>
    /\ SearchIdle /\ ParseIdle /\ EvalIdle /\ OpenIdle /\ ProjectIdle /\ RunIdle

Looked(attr_name, raw, got) ==
    /\ lk_entry' = got.entry
    /\ lk_calls' = Append(lk_calls, [ attr |-> attr_name, raw |-> raw,
                                      st |-> got.st, values |-> got.values ])
    /\ UNCHANGED << mode, searchVars, parseVars, evalVars, openVars, projectVars, runVars, lk_record, sourceVars, streamVars >>

\* entry.get_attribute_values(attr_name, raw)
Lookup(attr_name, raw) ==
    /\ mode = "lookup" /\ Len(lk_calls) < MaxLookups
    /\ Looked(attr_name, raw, get_attribute_values(lk_entry, attr_name, raw))

NextLookup == \E attr_name \in LookupNames, raw \in BOOLEAN : Lookup(attr_name, raw)

SpecLookup == InitLookup /\ [][NextLookup]_vars

-----------------------------------------------------------------------------
(* QueryEngine construction and the projection of an entry *)

\* attr.strip() left out
Stripped_Kept(attr) == attr

\* attr = attr.strip()
Stripped(attr) == Strip(attr)

\* one turn of the loop of _normalise_attributes on the stripped name
NormaliseOne(acc, attr, prop) ==
    IF attr = <<>> THEN acc
    ELSE IF ~prop.found THEN [ acc EXCEPT !.unknown = Append(@, attr) ]
    ELSE [ acc EXCEPT !.selected = Append(@, prop.name) ]

NormaliseStripped(acc, attr) == NormaliseOne(acc, attr, get_property(attr))

RECURSIVE NormaliseFrom(_, _, _)
NormaliseFrom(names, i, acc) ==
    IF i > Len(names) THEN acc
    ELSE NormaliseFrom(names, i + 1, NormaliseStripped(acc, Stripped(names[i])))

NormaliseEnd(acc) ==
    [ built |-> TRUE,
      selected |-> IF acc.selected = <<>> THEN NoSelection ELSE Selection(acc.selected),
      unknown |-> acc.unknown ]

\* QueryEngine._normalise_attributes
_normalise_attributes(attrs) ==
    IF ~attrs.given \/ attrs.names = <<>>
    THEN [ built |-> TRUE, selected |-> NoSelection, unknown |-> <<>> ]
    ELSE NormaliseEnd(NormaliseFrom(attrs.names, 1, [ selected |-> <<>>, unknown |-> <<>> ]))

\* _collapse_values
_collapse_values(values) ==
    IF values = <<>> THEN [ kind |-> "list", values |-> <<>> ]
    ELSE IF Len(values) = 1 THEN [ kind |-> "scalar", values |-> << values[1] >> ]
    ELSE [ kind |-> "list", values |-> values ]

\* result[name] = value on a dict kept as its items in insertion order
DictPut(items, name, value) ==
    IF \E k \in 1..Len(items) : items[k].name = name
    THEN [ k \in 1..Len(items) |-> IF items[k].name = name THEN [ name |-> name, value |-> value ]
                                   ELSE items[k] ]
    ELSE Append(items, [ name |-> name, value |-> value ])

\* the loops of to_dict carry the outcome, the dict and the entry with its caches
Projected(st, items, entry) == [ st |-> st, items |-> items, entry |-> entry ]

\* one turn of a loop of to_dict on the outcome of get_attribute_values
PutValues(acc, name, got) ==
    IF got.st = "KeyError" THEN Projected("ok", acc.items, got.entry)
    ELSE IF got.st # "ok" THEN Projected(got.st, acc.items, got.entry)
    ELSE Projected("ok", DictPut(acc.items, name, _collapse_values(got.values)), got.entry)

\* the turn of the selection loop for one selected name
SelectOne(acc, prop) ==
    IF ~prop.found THEN acc
    ELSE PutValues(acc, prop.name, get_attribute_values(acc.entry, prop.name, FALSE))

RECURSIVE SelectFrom(_, _, _)
SelectFrom(names, i, acc) ==
    IF i > Len(names) \/ acc.st # "ok" THEN acc
    ELSE SelectFrom(names, i + 1, SelectOne(acc, get_property(names[i])))

\* the turn of iter_attributes for one pair: reader.properties[attr_index]
\* raises IndexError for an index the schema table does not have
IterOne(acc, attr_index) ==
    IF attr_index >= Len(Properties) THEN Projected("IndexError", acc.items, acc.entry)
    ELSE PutValues(acc, Properties[attr_index + 1].name,
                   get_attribute_values(acc.entry, Properties[attr_index + 1].name, FALSE))

RECURSIVE IterFrom(_, _)
IterFrom(k, acc) ==
    IF k > Len(acc.entry.mapping) \/ acc.st # "ok" THEN acc
    ELSE IterFrom(k + 1, IterOne(acc, acc.entry.mapping[k].idx))

\* SnapshotEntry.to_dict
to_dict(entry, attrs) ==
    IF attrs.given /\ attrs.names # <<>> THEN SelectFrom(attrs.names, 1, Projected("ok", <<>>, entry))
    ELSE IterFrom(1, Projected("ok", <<>>, entry))

\* QueryEngine.materialise
materialise(eng, entry) == to_dict(entry, eng.selected)

\* ---- the inputs

MaxSelection == 2    \* names of a requested selection

RecBadIndex ==
    Record(<< Pair(0, Payload(<< T_al >>)), Pair(7, Payload(<< 8 >>)), Pair(1, Payload(<< 8 >>)) >>)

ProjectRecords ==
    { RecAlice, RecNoCn, RecEmptyCn, RecOctet, RecTwoPairs, RecShortPayload, RecBadIndex }

SelectionNames == { T_cn, T_CN, T_u, T_zz, << " " >>, << " ", "u" >>, <<>> }

Selections == { NoSelection } \cup { Selection(names) : names \in SeqsUpTo(SelectionNames, MaxSelection) }

InitProject ==
    /\ mode = "project"
    /\ attributes \in Selections
    /\ engine = NoEngine
    /\ pj_entry \in { NewEntry(rec).entry : rec \in ProjectRecords }
    /\ pj_out = NoRecord
    /\ SearchIdle /\ ParseIdle /\ EvalIdle /\ OpenIdle /\ LookupIdle /\ RunIdle

\* QueryEngine(reader, filter_node, attributes = attributes)
Construct ==
    /\ mode = "project" /\ ~engine.built
    /\ engine' = _normalise_attributes(attributes)
    /\ UNCHANGED << mode, searchVars, parseVars, evalVars, openVars, lookupVars,
                    runVars, attributes, pj_entry, pj_out, sourceVars, streamVars >>

Returned(call, selection, out) ==
    /\ pj_out' = [ made |-> TRUE, call |-> call, selection |-> selection,
                   st |-> out.st, items |-> out.items ]
    /\ pj_entry' = out.entry
    /\ UNCHANGED << mode, searchVars, parseVars, evalVars, openVars, lookupVars,
                    runVars, attributes, engine, sourceVars, streamVars >>

\* engine.materialise(entry)
Materialise ==
    /\ mode = "project" /\ engine.built /\ ~pj_out.made
    /\ Returned("materialise", engine.selected, materialise(engine, pj_entry))

\* entry.to_dict(attributes) with the names as requested
ToDict ==
    /\ mode = "project" /\ ~pj_out.made
    /\ Returned("to_dict", attributes, to_dict(pj_entry, attributes))

NextProject == Construct \/ Materialise \/ ToDict

SpecProject == InitProject /\ [][NextProject]_vars

-----------------------------------------------------------------------------
(* Two searches on one engine, the consumer materialising what it is given *)

MaxTwinEntries == 2  \* object records of the snapshot searched twice

T_AL == << "A", "L" >>

TwinRecords == { RecAlice, RecAlAl, RecNoCn, RecShortPayload }

TwinFilters ==
    { parse_filter(<< "(", "c", "n", "=", "A", "*", ")" >>).node,
      EqualityNode(T_CN, Bytes(T_AL)),
      PresenceNode(T_u),
      NotNode(EqualityNode(T_cn, Bytes(T_al))) }

TwinSelections == { NoSelection, Selection(<< T_cn >>), Selection(<< T_u, T_zz >>) }

InitTwin ==
    /\ mode = "search"
    /\ snapshot \in SeqsUpTo(TwinRecords, MaxTwinEntries)
    /\ filter_node \in TwinFilters
    /\ limit \in { NoLimit, Limit(1) }
    /\ ignore_case \in BOOLEAN
    /\ attributes \in TwinSelections
    /\ engine = _normalise_attributes(attributes)
    /\ pj_entry = NoEntry /\ pj_out = NoRecord
    /\ pc = "created"
    /\ idx = 0
    /\ constructed = 0
    /\ evaluated = 0
    /\ matches = 0
    /\ yielded = <<>>
    /\ stats = QueryStats(0, 0)
    /\ records = << >>
    /\ previous = NoRun
    /\ ParseIdle /\ EvalIdle /\ OpenIdle /\ LookupIdle

\* the entry search() yielded for offset position i, its cache filled by the
\* evaluation of the filter
YieldedEntry(snap, node, i) == Evaluate(node, NewEntry(snap[i]).entry).entry

Keep(k, out) ==
    /\ records' = [ j \in (DOMAIN records) \cup { k } |->
                      IF j = k THEN [ st |-> out.st, items |-> out.items ] ELSE records[j] ]
    /\ UNCHANGED << mode, searchVars, parseVars, evalVars, openVars, lookupVars, projectVars,
                    ignore_case, previous, sourceVars, streamVars >>

\* the consumer calls engine.materialise(entry) on the k-th entry it was given
MaterialiseYielded(k) ==
    /\ mode = "search" /\ k \in 1..Len(yielded) /\ k \notin DOMAIN records
    /\ Keep(k, materialise(engine, YieldedEntry(snapshot, filter_node, yielded[k])))

\* the caller sets engine.ignore_case and calls engine.search() once more
SearchAgain(flag) ==
    /\ mode = "search" /\ pc \in { "done", "raised", "abandoned" } /\ ~previous.made
    /\ previous' = [ made |-> TRUE, ignore_case |-> ignore_case, yielded |-> yielded,
                     records |-> records, pc |-> pc, stats_before |-> stats ]
    /\ ignore_case' = flag
    /\ pc' = "created"
    /\ idx' = 0
    /\ constructed' = 0
    /\ evaluated' = 0
    /\ matches' = 0
    /\ yielded' = <<>>
    /\ records' = << >>
    /\ UNCHANGED << mode, snapshot, filter_node, limit, stats,
                    parseVars, evalVars, openVars, lookupVars, projectVars, sourceVars, streamVars >>

NextTwin ==
    \/ NextSearch
    \/ \E k \in 1..MaxTwinEntries : MaterialiseYielded(k)
    \/ \E flag \in BOOLEAN : SearchAgain(flag)

SpecTwin == InitTwin /\ [][NextTwin]_vars

-----------------------------------------------------------------------------
(* The stored object records and the read position.  An image is the region *)
(* of the file that holds the object records, one element per unit the      *)
(* reader takes in one read: a 32-bit word, or one UTF-16 character of a    *)
(* string (0 for its terminator).  Offsets and positions count these units. *)

MaxStreamEntries == 2  \* object records of the stored image

\* ---- how a record is stored

\* a string value: its characters and the terminator
StoredString(text) == [ i \in 1..(Len(text) + 1) |-> IF i <= Len(text) THEN Ord(text[i]) ELSE 0 ]

RECURSIVE StoredTexts(_, _)
StoredTexts(words, k) ==
    IF k > Len(words) THEN <<>> ELSE StoredString(words[k]) \o StoredTexts(words, k + 1)

\* the offset of the k-th string from the start of the attribute's data
RECURSIVE StringOffset(_, _)
StringOffset(words, k) ==
    IF k = 1 THEN 1 + Len(words) ELSE StringOffset(words, k - 1) + Len(words[k - 1]) + 1

\* the data of one attribute: the value count, then the offsets and the
\* strings of a string attribute, or the words of an integer or boolean one
StoredPayload(ads_type, payload) ==
    IF ads_type \in StringTypes
    THEN << payload.num_values >> \o [ k \in 1..Len(payload.words) |-> StringOffset(payload.words, k) ]
             \o StoredTexts(payload.words, 1)
    ELSE << payload.num_values >> \o payload.words

StoredPair(rec, k) == StoredPayload(Properties[rec.mapping[k].idx + 1].ads_type, rec.mapping[k].payload)

RECURSIVE StoredPairs(_, _)
StoredPairs(rec, k) == IF k > Len(rec.mapping) THEN <<>> ELSE StoredPair(rec, k) \o StoredPairs(rec, k + 1)

\* the offset of the k-th attribute's data from the start of the record
RECURSIVE AttrOffset(_, _)
AttrOffset(rec, k) ==
    IF k = 1 THEN 2 + 2 * Len(rec.mapping) ELSE AttrOffset(rec, k - 1) + Len(StoredPair(rec, k - 1))

RECURSIVE StoredTable(_, _)
StoredTable(rec, k) ==
    IF k > Len(rec.mapping) THEN <<>>
    ELSE << rec.mapping[k].idx, AttrOffset(rec, k) >> \o StoredTable(rec, k + 1)

\* size, table size, the (index, offset) pairs, the attributes' data
StoredRecord(rec) ==
    << 2 + 2 * Len(rec.mapping) + Len(StoredPairs(rec, 1)), Len(rec.mapping) >>
        \o StoredTable(rec, 1) \o StoredPairs(rec, 1)

RECURSIVE StoredImage(_)
StoredImage(recs) == IF recs = <<>> THEN <<>> ELSE StoredRecord(Head(recs)) \o StoredImage(Tail(recs))

\* reader._object_offsets: each record begins where the one before it ends
RECURSIVE ObjectOffset(_, _)
ObjectOffset(recs, i) ==
    IF i = 1 THEN 0 ELSE ObjectOffset(recs, i - 1) + Len(StoredRecord(recs[i - 1]))

\* ---- reading

\* fh.seek(whence = 1): the target counted from the current position
seek_FromCurrent(pos, target) == pos + target

\* fh.seek(target)
seek(pos, target) == target

\* _read_uint32 / _read_int32, and the two bytes of a character: one unit
\* from the position, EOFError at the end
ReadUnit(img, pos) ==
    IF pos >= 0 /\ pos < Len(img) THEN [ st |-> "ok", v |-> img[pos + 1], pos |-> pos + 1 ]
    ELSE [ st |-> "EOFError", v |-> 0, pos |-> pos ]

\* n units read one after the other
RECURSIVE ReadUnits(_, _, _, _)
ReadUnits(img, pos, n, got) ==
    IF n = 0 THEN [ st |-> "ok", vs |-> got, pos |-> pos ]
    ELSE IF ReadUnit(img, pos).st # "ok" THEN [ st |-> "EOFError", vs |-> got, pos |-> pos ]
    ELSE ReadUnits(img, pos + 1, n - 1, Append(got, img[pos + 1]))

\* _read_wchar_string: characters up to the terminator
RECURSIVE _read_wchar_string(_, _, _)
_read_wchar_string(img, pos, buf) ==
    IF ReadUnit(img, pos).st # "ok" THEN [ st |-> "EOFError", s |-> buf, pos |-> pos ]
    ELSE IF img[pos + 1] = 0 THEN [ st |-> "ok", s |-> buf, pos |-> pos + 1 ]
    ELSE _read_wchar_string(img, pos + 1, Append(buf, Chr(img[pos + 1])))

PairsOf(units) == [ k \in 1..(Len(units) \div 2) |->
                      [ idx |-> units[2 * k - 1], attr_offset |-> units[2 * k] ] ]

HeaderTable(table) ==
    [ st |-> table.st, mapping |-> IF table.st = "ok" THEN PairsOf(table.vs) ELSE <<>>, pos |-> table.pos ]

HeaderCount(img, count) ==
    IF count.st # "ok" THEN [ st |-> "EOFError", mapping |-> <<>>, pos |-> count.pos ]
    ELSE HeaderTable(ReadUnits(img, count.pos, 2 * count.v, <<>>))

HeaderSize(img, size) ==
    IF size.st # "ok" THEN [ st |-> "EOFError", mapping |-> <<>>, pos |-> size.pos ]
    ELSE HeaderCount(img, ReadUnit(img, size.pos))

\* SnapshotEntry._read_object_header: seek to the entry's offset, then size,
\* table size and the pairs
_read_object_header(img, pos, offset) == HeaderSize(img, ReadUnit(img, seek(pos, offset)))

Unreadable(pos) == [ payload |-> ShortPayload, pos |-> pos ]

\* `for rel in offsets: fh.seek(file_attr_offset + rel); _read_wchar_string(fh)`
RECURSIVE ReadStrings(_, _, _, _, _, _)
ReadStringAt(img, start, rels, k, got, str) ==
    IF str.st # "ok" THEN Unreadable(str.pos)
    ELSE ReadStrings(img, str.pos, start, rels, k + 1, Append(got, str.s))

ReadStrings(img, pos, start, rels, k, got) ==
    IF k > Len(rels) THEN [ payload |-> Payload(got), pos |-> pos ]
    ELSE ReadStringAt(img, start, rels, k, got, _read_wchar_string(img, seek(pos, start + rels[k]), <<>>))

StringsAfter(img, start, rels) ==
    IF rels.st # "ok" THEN Unreadable(rels.pos)
    ELSE ReadStrings(img, rels.pos, start, rels.vs, 1, <<>>)

WordsAfter(words) ==
    IF words.st # "ok" THEN Unreadable(words.pos) ELSE [ payload |-> Payload(words.vs), pos |-> words.pos ]

ValuesAfter(img, start, ads_type, count) ==
    IF count.st # "ok" THEN Unreadable(count.pos)
    ELSE IF count.v = 0 THEN [ payload |-> EmptyPayload, pos |-> count.pos ]
    ELSE IF ads_type \in StringTypes
    THEN StringsAfter(img, start, ReadUnits(img, count.pos, count.v, <<>>))
    ELSE WordsAfter(ReadUnits(img, count.pos, count.v, <<>>))

\* SnapshotEntry._read_values as far as the file is read: seek to the
\* attribute's data, the value count, then the values of the type
ReadPayload(img, pos, start, ads_type) ==
    ValuesAfter(img, start, ads_type, ReadUnit(img, seek(pos, start)))

TypeOfIndex(i) == IF i < Len(Properties) THEN Properties[i + 1].ads_type ELSE 0

\* the entry built at an offset, each attribute with what a read of it finds
EntryOf(img, offset, header) ==
    IF header.st # "ok" THEN RecShortHeader
    ELSE Record([ k \in 1..Len(header.mapping) |->
                    Pair(header.mapping[k].idx,
                         ReadPayload(img, header.pos, offset + header.mapping[k].attr_offset,
                                     TypeOfIndex(header.mapping[k].idx)).payload) ])

EntryAt(img, pos, offset) == EntryOf(img, offset, _read_object_header(img, pos, offset))

\* what iter_entries() and the reads on its entries find with the source at pos
Decoded(img, pos, offsets) == [ i \in 1..Len(offsets) |-> EntryAt(img, pos, offsets[i]) ]

\* where the source may stand after reads on the entry at the offset: after
\* its header or after the data of one of its attributes
EndsOf(img, offset, header) ==
    { header.pos } \cup
    { ReadPayload(img, header.pos, offset + header.mapping[k].attr_offset,
                  TypeOfIndex(header.mapping[k].idx)).pos : k \in 1..Len(header.mapping) }

EndsAt(img, pos, offset) == EndsOf(img, offset, _read_object_header(img, pos, offset))

\* ---- a search over the image, the consumer reading between its steps

StreamRecords == { RecAlice, RecBob, RecNoCn, RecEmptyCn }

StreamFilters ==
    { PresenceNode(T_u), EqualityNode(T_cn, Bytes(T_al)), NotNode(EqualityNode(T_cn, Bytes(T_al))) }

Offsets == [ i \in 1..Len(snapshot) |-> ObjectOffset(snapshot, i) ]

InitStream ==
    /\ mode = "stream"
    /\ snapshot \in SeqsUpTo(StreamRecords, MaxStreamEntries)
    /\ image = StoredImage(snapshot)
    /\ fh_pos = Len(image)
    /\ filter_node \in StreamFilters
    /\ limit = NoLimit
    /\ attributes \in { NoSelection, Selection(<< T_u >>) }
    /\ engine = _normalise_attributes(attributes)
    /\ pj_entry = NoEntry /\ pj_out = NoRecord
    /\ pc = "created"
    /\ idx = 0
    /\ constructed = 0
    /\ evaluated = 0
    /\ matches = 0
    /\ yielded = <<>>
    /\ stats = QueryStats(0, 0)
    /\ ParseIdle /\ EvalIdle /\ LookupIdle /\ RunIdle
    /\ file = NoFile /\ use_mmap = FALSE /\ reader = NoReader /\ asked = NoAsk
    /\ source = NoSource /\ block = NoBlock

\* one next() of the iterator of search(): the entries from idx on are built
\* and evaluated until one matches, the index ends or a read fails
Stepped(step) ==
    /\ pc' = CASE step.out = "yield" -> "yielded" [] step.out = "end" -> "done" [] OTHER -> "raised"
    /\ idx' = step.idx
    /\ constructed' = step.constructed
    /\ evaluated' = step.evaluated
    /\ matches' = IF step.out = "yield" THEN matches + 1 ELSE matches
    /\ yielded' = IF step.out = "yield" THEN Append(yielded, step.idx) ELSE yielded
    /\ stats' = IF step.out = "end" THEN QueryStats(step.evaluated, matches) ELSE stats
    /\ fh_pos' \in UNION { EndsAt(image, fh_pos, Offsets[i]) : i \in (idx + 1)..step.constructed } \cup { fh_pos }
    /\ UNCHANGED << mode, snapshot, filter_node, limit, image, parseVars, evalVars, openVars,
                    lookupVars, projectVars, runVars, sourceVars >>

StreamNext ==
    /\ mode = "stream" /\ pc \in { "created", "yielded" }
    /\ Stepped(Scan(Decoded(image, fh_pos, Offsets), filter_node, idx, constructed, evaluated))

Taken(k, out, ends) ==
    /\ records' = [ j \in (DOMAIN records) \cup { k } |->
                      IF j = k THEN [ st |-> out.st, items |-> out.items, scanned |-> idx ]
                      ELSE records[j] ]
    /\ fh_pos' \in ends \cup { fh_pos }
    /\ UNCHANGED << mode, searchVars, image, parseVars, evalVars, openVars, lookupVars, projectVars,
                    ignore_case, previous, sourceVars >>

\* between two steps the consumer calls engine.materialise(entry) on the
\* k-th entry it was given
ConsumerMaterialises(k) ==
    /\ mode = "stream" /\ k \in 1..Len(yielded) /\ k \notin DOMAIN records
    /\ Taken(k, materialise(engine, YieldedEntry(Decoded(image, fh_pos, Offsets), filter_node, yielded[k])),
             EndsAt(image, fh_pos, Offsets[yielded[k]]))

Moved(read) ==
    /\ fh_pos' = read.pos
    /\ UNCHANGED << mode, searchVars, image, parseVars, evalVars, openVars, lookupVars, projectVars,
                    runVars, sourceVars >>

\* the consumer calls get_attribute_values on the k-th entry it was given,
\* for the attribute of the entry's j-th pair
ConsumerGets(k, j) ==
    /\ mode = "stream" /\ k \in 1..Len(yielded)
    /\ j \in 1..Len(_read_object_header(image, fh_pos, Offsets[yielded[k]]).mapping)
    /\ Moved(ReadPayload(image, fh_pos,
                         Offsets[yielded[k]]
                             + _read_object_header(image, fh_pos, Offsets[yielded[k]]).mapping[j].attr_offset,
                         TypeOfIndex(_read_object_header(image, fh_pos, Offsets[yielded[k]]).mapping[j].idx)))

NextStream ==
    \/ StreamNext
    \/ \E k \in 1..MaxStreamEntries : ConsumerMaterialises(k)
    \/ \E k \in 1..MaxStreamEntries, j \in 1..2 : ConsumerGets(k, j)

SpecStream == InitStream /\ [][NextStream]_vars

-----------------------------------------------------------------------------
(* Properties of QueryEngine.search() *)

\* what one entry, decoded and tested on its own, does with the filter
OutcomeOf(node, made) == IF made.st # "ok" THEN made.st ELSE Evaluate(node, made.entry).res
EntryOutcome(node, rec) == OutcomeOf(node, NewEntry(rec))
EntryMatches(node, rec) == EntryOutcome(node, rec) = "T"
EntryRaises(node, rec) == EntryOutcome(node, rec) \notin { "T", "F" }

Positions == [ i \in 1..Len(snapshot) |-> i ]

\* the index positions of the entries the filter is true of, in offset order
MatchingPositions == SelectSeq(Positions, LAMBDA i : EntryMatches(filter_node, snapshot[i]))

FirstOf(seq, n) == SubSeq(seq, 1, IF n < Len(seq) THEN n ELSE Len(seq))

\* the iterator has ended: by StopIteration or by an exception
Ended == mode = "search" /\ pc \in { "done", "raised" }

\* C1: with no limit set, search() yields exactly the entries the filter is
\* true of, each once and in the order of the offset index: when the iterator
\* has ended, what it yielded is the sequence of all matching positions.
C1_YieldsExactlyTheMatches == (Ended /\ ~limit.set) => yielded = MatchingPositions

\* C2: for a positive limit L and M matching entries, search() yields exactly
\* the first min(L, M) matching entries in offset order, and once the L-th
\* match has been yielded no further entry is constructed or evaluated.
C2_YieldsFirstLMatches ==
    (mode = "search" /\ limit.set /\ limit.n >= 1) =>
        /\ Ended => yielded = FirstOf(MatchingPositions, limit.n)
        /\ Len(yielded) >= limit.n =>
               /\ idx = yielded[limit.n]
               /\ constructed = yielded[limit.n]
               /\ evaluated = yielded[limit.n]

\* the limit ended the scan
LimitCut == limit.set /\ Len(yielded) >= limit.n

\* C3: when the iterator of search() has been run to exhaustion, stats.matches
\* is the number of entries it yielded and stats.entries_evaluated is the number
\* of entries the filter was tested on: the whole offset index when no limit
\* cut the scan, the index position of the limit-th match when a positive limit
\* did; and matches <= entries_evaluated.
C3_StatsAtExhaustion ==
    (mode = "search" /\ pc = "done") =>
        /\ stats.matches = Len(yielded)
        /\ stats.entries_evaluated = evaluated
        /\ stats.entries_evaluated = constructed
        /\ ~LimitCut => stats.entries_evaluated = Len(snapshot)
        /\ (LimitCut /\ limit.n >= 1) => stats.entries_evaluated = yielded[limit.n]
        /\ stats.matches <= stats.entries_evaluated

\* a scan that a limit of 2 cut before the end of a three-entry index
C3_Witness ==
    /\ mode = "search" /\ pc = "done"
    /\ limit = Limit(2)
    /\ yielded = << 1, 2 >>
    /\ Len(snapshot) = 3
    /\ stats = QueryStats(2, 2)

\* C4: a decoding error raised while constructing or evaluating one entry is
\* isolated to that entry: the scan goes on, and every matching entry after
\* the failing one is still yielded.
C4_DecodingErrorIsolated ==
    (Ended /\ ~limit.set) =>
        \A i \in 1..Len(snapshot) : \A j \in (i + 1)..Len(snapshot) :
            (EntryRaises(filter_node, snapshot[i]) /\ EntryMatches(filter_node, snapshot[j]))
                => \E k \in 1..Len(yielded) : yielded[k] = j

-----------------------------------------------------------------------------
(* Properties of FilterNode.evaluate() *)

IsLeaf(node) == node.kind \in { "Presence", "Equality", "Substring" }

\* the attribute name is not in the schema, or the entry's mapping table has
\* no pair for the property of that name
AttributeAbsent(attr, entry) ==
    \A i \in 1..Len(Properties) :
        Lower(Properties[i].name) = Lower(attr) =>
            \A k \in 1..Len(entry.mapping) : entry.mapping[k].idx # Properties[i].index

\* C5: a Presence, Equality or Substring node whose attribute name is not in
\* the schema, or whose property has no pair in the entry's mapping table,
\* evaluates to false and raises nothing.
C5_AbsentAttributeIsFalse ==
    (mode = "eval" /\ ev_res # "-" /\ IsLeaf(ev_node) /\ AttributeAbsent(ev_node.attr, ev_entry))
        => ev_res = "F"

\* (cn=bo) on an entry whose mapping table has no pair for cn
C5_Witness ==
    /\ mode = "eval"
    /\ ev_node = EqualityNode(T_cn, Bytes(T_bo))
    /\ ev_entry.mapping = RecNoCn.mapping
    /\ ev_res = "F"

Negation(res) == IF res = "T" THEN "F" ELSE "T"

\* C6: whenever F.evaluate(E) does not raise, Not(F).evaluate(E) is its
\* negation; in particular a Not over an attribute absent from the schema or
\* from the entry is true.
C6_NotNegates ==
    (mode = "eval" /\ ev_not # "-") =>
        /\ ev_res \in { "T", "F" } => ev_not = Negation(ev_res)
        /\ (IsLeaf(ev_node) /\ AttributeAbsent(ev_node.attr, ev_entry)) => ev_not = "T"

\* F = (zz=al) names an attribute the schema does not have: F is false, Not(F) true
C6_Witness ==
    /\ mode = "eval"
    /\ ev_node = EqualityNode(T_zz, Bytes(T_al))
    /\ ev_res = "F"
    /\ ev_not = "T"

-----------------------------------------------------------------------------
(* Properties of parse_filter() *)

\* no And or Or node of the tree has an empty child list, and every Not node
\* has a node as its child
RECURSIVE WellFormed(_)
WellFormed(node) ==
    CASE node.kind \in { "And", "Or" } ->
             /\ Len(node.nodes) >= 1
             /\ \A i \in 1..Len(node.nodes) : WellFormed(node.nodes[i])
      [] node.kind = "Not" -> WellFormed(node.node)
      [] node.kind \in { "Presence", "Equality", "Substring" } -> TRUE
      [] OTHER -> FALSE

\* the text without its spaces
Squeezed(text) == SelectSeq(text, LAMBDA ch : ~IsSpace(ch))

Count(text, ch) == Cardinality({ i \in 1..Len(text) : text[i] = ch })

\* the number of parentheses open before position i
DepthBefore(text, i) == Count(SubSeq(text, 1, i - 1), "(") - Count(SubSeq(text, 1, i - 1), ")")

\* the number of sub-filters opened directly inside the outermost parenthesis
DirectChildren(text) ==
    Cardinality({ i \in 1..Len(text) : text[i] = "(" /\ DepthBefore(text, i) = 1 })

OpensWith(sq, ops) == Len(sq) >= 2 /\ sq[1] = "(" /\ sq[2] \in ops

\* an & or | that no sub-filter follows
EmptyList(sq) == OpensWith(sq, { "&", "|" }) /\ (Len(sq) < 3 \/ sq[3] # "(")

ParseDone == mode = "parse" /\ parsed # Unparsed

\* C7: parse_filter never returns a tree with an And or Or node of zero
\* children: an & or | followed by no sub-filter raises FilterSyntaxError, and
\* a ! is accepted only with exactly one child.
C7_NoEmptyBooleanNode ==
    ParseDone =>
        /\ parsed.st = "ok" => WellFormed(parsed.node)
        /\ EmptyList(Squeezed(data)) => parsed.st = "FilterSyntaxError"
        /\ OpensWith(Squeezed(data), { "!" }) =>
               IF DirectChildren(data) = 1
               THEN parsed.st \in { "ok", "FilterSyntaxError" }
                    /\ (parsed.st = "ok" => parsed.node.kind = "Not")
               ELSE parsed.st = "FilterSyntaxError"

\* "(| )" is rejected
C7_Witness ==
    /\ ParseDone
    /\ data = << "(", "|", " ", ")" >>
    /\ parsed.st = "FilterSyntaxError"

HexDigits ==
    { "0", "1", "2", "3", "4", "5", "6", "7", "8", "9",
      "a", "b", "c", "d", "e", "f", "A", "B", "C", "D", "E", "F" }

\* the value text at i is a backslash with two hex digits after it
IsHexPair(raw, i) == i + 2 <= Len(raw) /\ raw[i + 1] \in HexDigits /\ raw[i + 2] \in HexDigits

\* the value text split at its unescaped stars; a backslash takes the two
\* characters after it into the segment
RECURSIVE RawSegments(_, _, _, _)
RawSegments(raw, i, cur, segs) ==
    IF i > Len(raw) THEN Append(segs, cur)
    ELSE IF raw[i] = "*" THEN RawSegments(raw, i + 1, <<>>, Append(segs, cur))
    ELSE IF raw[i] = "\\"
    THEN RawSegments(raw, i + 3, cur \o SubSeq(raw, i, IF i + 2 < Len(raw) THEN i + 2 ELSE Len(raw)), segs)
    ELSE RawSegments(raw, i + 1, Append(cur, raw[i]), segs)

\* some backslash of the value text, read from the left up to the closing
\* parenthesis, has not two hex digits after it
RECURSIVE BadEscapeFrom(_, _)
BadEscapeFrom(raw, i) ==
    IF i > Len(raw) \/ raw[i] = ")" THEN FALSE
    ELSE IF raw[i] = "\\" THEN (IF IsHexPair(raw, i) THEN BadEscapeFrom(raw, i + 3) ELSE TRUE)
    ELSE BadEscapeFrom(raw, i + 1)

\* the bytes of a value text whose escapes are all backslash and two hex digits
RECURSIVE Unescape(_, _)
Unescape(raw, i) ==
    IF i > Len(raw) THEN <<>>
    ELSE IF raw[i] = "\\"
    THEN << 16 * DigitVal(raw[i + 1]) + DigitVal(raw[i + 2]) >> \o Unescape(raw, i + 3)
    ELSE << Ord(raw[i]) >> \o Unescape(raw, i + 1)

\* a byte string of single-byte characters as text
TextOf(bytes) == [ i \in 1..Len(bytes) |-> Chr(bytes[i]) ]

\* the text is "(a=" and a value without parentheses, closed or not
IsItemText(text) ==
    /\ Len(text) >= 3 /\ SubSeq(text, 1, 3) = ItemOpen
    /\ \A i \in 4..Len(text) : text[i] # "(" /\ (text[i] = ")" => i = Len(text))

IsClosedItem(text) == IsItemText(text) /\ text[Len(text)] = ")"

ValueText(text) == SubSeq(text, 4, Len(text) - 1)

AnchorOf(raw) == IF raw = <<>> THEN NoAnchor ELSE Anchor(TextOf(Unescape(raw, 1)))

Interior(segs) == SelectSeq(SubSeq(segs, 2, Len(segs) - 1), LAMBDA seg : seg # <<>>)

\* the node the claim describes for the value text raw with raw segments segs
Classified(node, raw, segs, strict) ==
    IF raw = << "*" >> THEN node = PresenceNode(<< "a" >>)
    ELSE IF Len(segs) >= 2
    THEN /\ node.kind = "Substring"
         /\ node.attr = << "a" >>
         /\ node.pattern.initial.present = (segs[1] # <<>>)
         /\ node.pattern.final.present = (segs[Len(segs)] # <<>>)
         /\ Len(node.pattern.any) = Len(Interior(segs))
         /\ strict =>
                /\ node.pattern.initial = AnchorOf(segs[1])
                /\ node.pattern.final = AnchorOf(segs[Len(segs)])
                /\ node.pattern.any = [ k \in 1..Len(Interior(segs)) |->
                                          TextOf(Unescape(Interior(segs)[k], 1)) ]
    ELSE /\ node.kind = "Equality"
         /\ node.attr = << "a" >>
         /\ strict => node.value = Unescape(raw, 1)

\* C8: the node kind of an item is decided by the unescaped stars of its
\* value: exactly one star alone gives Presence; any other value with a star
\* gives Substring, with the first segment as initial anchor if non-empty, the
\* last as final anchor if non-empty and the non-empty interior segments in
\* order as fragments; no star gives Equality on the single segment. An
\* escaped \2a is a byte of its segment, not a wildcard.
C8_KindByUnescapedStars ==
    (ParseDone /\ parsed.st = "ok" /\ IsClosedItem(data)) =>
        Classified(parsed.node, ValueText(data),
                   RawSegments(ValueText(data), 1, <<>>, <<>>),
                   ~BadEscapeFrom(ValueText(data), 1))

\* (a=\2a*a): the escaped star is the initial anchor, the bare one the wildcard
C8_Witness ==
    /\ ParseDone
    /\ data = << "(", "a", "=", "\\", "2", "a", "*", "a", ")" >>
    /\ parsed.node = SubstringNode(<< "a" >>,
                                   SubstringPattern(Anchor(<< "*" >>), <<>>, Anchor(<< "a" >>)))

\* C9: in a filter value a backslash followed by two hex digits consumes those
\* two characters and appends the byte they denote; a backslash followed by
\* fewer than two characters, or by two characters that are not both hex
\* digits, makes parse_filter raise FilterSyntaxError.
C9_EscapeIsTwoHexDigits ==
    (ParseDone /\ IsItemText(data)) =>
        IF BadEscapeFrom(SubSeq(data, 4, Len(data)), 1)
        THEN parsed.st = "FilterSyntaxError"
        ELSE (parsed.st = "ok" /\ parsed.node.kind = "Equality")
                 => parsed.node.value = Unescape(ValueText(data), 1)

-----------------------------------------------------------------------------
(* Equality on an integer attribute *)

AllIn(text, chars) == \A i \in 1..Len(text) : text[i] \in chars

OctalDigits == { "0", "1", "2", "3", "4", "5", "6", "7" }
DecimalDigits == OctalDigits \cup { "8", "9" }

RECURSIVE ValueIn(_, _)
ValueIn(ds, base) ==
    IF ds = <<>> THEN 0 ELSE ValueIn(SubSeq(ds, 1, Len(ds) - 1), base) * base + DigitVal(ds[Len(ds)])

Prefixed(text, letters, digits) ==
    /\ Len(text) >= 3 /\ text[1] = "0" /\ text[2] \in letters
    /\ AllIn(SubSeq(text, 3, Len(text)), digits)

\* text, made of digits and prefix letters only, denotes n as a Python
\* integer literal: 0x hexadecimal, 0o octal, 0b binary, otherwise decimal
\* without a leading zero (zero itself may be written 0, 00, ...)
DenotesBase0(text, n) ==
    \/ Prefixed(text, { "x", "X" }, HexDigits) /\ n = ValueIn(SubSeq(text, 3, Len(text)), 16)
    \/ Prefixed(text, { "o", "O" }, OctalDigits) /\ n = ValueIn(SubSeq(text, 3, Len(text)), 8)
    \/ Prefixed(text, { "b", "B" }, { "0", "1" }) /\ n = ValueIn(SubSeq(text, 3, Len(text)), 2)
    \/ /\ text # <<>> /\ AllIn(text, DecimalDigits)
       /\ (text[1] # "0" \/ AllIn(text, { "0" }))
       /\ n = ValueIn(text, 10)

\* text denotes n when a leading 0x is hexadecimal, a leading 0 octal, and
\* anything else decimal
DenotesLeadingZeroOctal(text, n) ==
    \/ Prefixed(text, { "x", "X" }, HexDigits) /\ n = ValueIn(SubSeq(text, 3, Len(text)), 16)
    \/ text # <<>> /\ text[1] = "0" /\ AllIn(text, OctalDigits) /\ n = ValueIn(text, 8)
    \/ text # <<>> /\ text[1] # "0" /\ AllIn(text, DecimalDigits) /\ n = ValueIn(text, 10)

\* the pairs of the entry's mapping table that carry the integer property u
IntegerPairs(entry) == { k \in 1..Len(entry.mapping) : entry.mapping[k].idx = 1 }

\* the integers stored in the first such pair
StoredIntegers(entry, pairs) ==
    { entry.mapping[SetMin(pairs)].payload.words[i] :
          i \in 1..entry.mapping[SetMin(pairs)].payload.num_values }

\* ev_node is an equality on u, the entry stores integers for u, and the
\* evaluation has been made
IntegerEquality ==
    /\ mode = "eval" /\ ev_res # "-"
    /\ ev_node.kind = "Equality" /\ Lower(ev_node.attr) = T_u
    /\ IntegerPairs(ev_entry) # {}

\* C10 as stated: the needle of an equality on an integer attribute is read
\* with a leading 0x as hexadecimal, a leading 0 as octal and otherwise as
\* decimal, and the equality is true iff some stored value is the integer read
\* (false when the text does not parse).
C10_LeadingZeroIsOctal ==
    IntegerEquality =>
        ev_res = Bool(\E n \in StoredIntegers(ev_entry, IntegerPairs(ev_entry)) :
                          DenotesLeadingZeroOctal(TextOf(ev_node.value), n))

\* C10 amended: the needle is read as a Python integer literal (0x
\* hexadecimal, 0o octal, 0b binary, otherwise decimal, where a nonzero number
\* written with a leading 0 and no prefix letter does not parse), and the
\* equality is true iff some stored value is the integer read (false when the
\* text does not parse). 514 and 0x202 both match a stored 514.
C10_Base0Literal ==
    IntegerEquality =>
        ev_res = Bool(\E n \in StoredIntegers(ev_entry, IntegerPairs(ev_entry)) :
                          DenotesBase0(TextOf(ev_node.value), n))

\* (u=0x202) on the entry that stores 514
C10_Witness ==
    /\ mode = "eval"
    /\ ev_node = EqualityNode(T_u, Bytes(<< "0", "x", "2", "0", "2" >>))
    /\ ev_entry.mapping = RecUac514.mapping
    /\ ev_res = "T"

-----------------------------------------------------------------------------
(* Equality on a string attribute *)

\* the pairs of the entry's mapping table that carry the string property cn
StringPairs(entry) == { k \in 1..Len(entry.mapping) : entry.mapping[k].idx = 0 }

\* the strings stored in the first such pair
StoredStrings(entry, pairs) ==
    { entry.mapping[SetMin(pairs)].payload.words[i] :
          i \in 1..entry.mapping[SetMin(pairs)].payload.num_values }

\* ev_node is an equality on cn, the entry carries a readable cn, and the
\* evaluation has been made
StringEquality ==
    /\ mode = "eval" /\ ev_res # "-"
    /\ ev_node.kind = "Equality" /\ Lower(ev_node.attr) = T_cn
    /\ StringPairs(ev_entry) # {}
    /\ \A k \in StringPairs(ev_entry) : ev_entry.mapping[k].payload.readable

\* the text of v after its first "=" up to the next ","
TextAfterEquals(v, eq, commas) ==
    SubSeq(v, eq + 1, IF commas = {} THEN Len(v) ELSE SetMin(commas) - 1)

\* v contains "=" and the text after its first "=" up to the first ","
\* case-folded is text
RdnAsClaimed(v, text) ==
    /\ Contains(v, "=")
    /\ Casefold(TextAfterEquals(v, FirstIndex(v, "="),
                                { i \in (FirstIndex(v, "=") + 1)..Len(v) : v[i] = "," })) = text

\* the part of v before its first "," holds an "=", and the text after that
\* "=" up to the ",", stripped of surrounding whitespace and case-folded, is text
RdnStripped(v, text) ==
    /\ Contains(v, "=")
    /\ (Contains(v, ",") => FirstIndex(v, "=") < FirstIndex(v, ","))
    /\ Casefold(Strip(TextAfterEquals(v, FirstIndex(v, "="),
                                      { i \in 1..Len(v) : v[i] = "," }))) = text

\* C11 as stated: equality on a string attribute is true iff for some stored
\* value the case-folded value is the case-folded filter text, or the value
\* contains "=" and the text after its first "=" up to the first ","
\* case-folded is the case-folded filter text; false for an empty value list.
C11_RdnIsTextAfterEquals ==
    StringEquality =>
        ev_res = Bool(\E v \in StoredStrings(ev_entry, StringPairs(ev_entry)) :
                          \/ Casefold(v) = Casefold(TextOf(ev_node.value))
                          \/ RdnAsClaimed(v, Casefold(TextOf(ev_node.value))))

\* C11 amended: the RDN value is the text between the first "=" and the first
\* "," with surrounding whitespace stripped, and a value whose first ","
\* comes before its first "=" has none.
C11_RdnStripped ==
    StringEquality =>
        ev_res = Bool(\E v \in StoredStrings(ev_entry, StringPairs(ev_entry)) :
                          \/ Casefold(v) = Casefold(TextOf(ev_node.value))
                          \/ RdnStripped(v, Casefold(TextOf(ev_node.value))))

\* (cn=al) on the entry whose cn is "n= al"
C11_Witness ==
    /\ mode = "eval"
    /\ ev_node = EqualityNode(T_cn, Bytes(T_al))
    /\ ev_entry.mapping = RecSpacedDn.mapping
    /\ ev_res = "T"

-----------------------------------------------------------------------------
(* Substring scan *)

\* ev_node is a substring node on cn, the entry carries a readable cn, and
\* the evaluation has been made
SubstringScan ==
    /\ mode = "eval" /\ ev_res # "-"
    /\ ev_node.kind = "Substring" /\ Lower(ev_node.attr) = T_cn
    /\ StringPairs(ev_entry) # {}
    /\ \A k \in StringPairs(ev_entry) : ev_entry.mapping[k].payload.readable

\* fragment f stands in text c at the 1-based position p
Occurs(c, f, p) == p + Len(f) - 1 <= Len(c) /\ SubSeq(c, p, p + Len(f) - 1) = f

\* the 1-based cursor after the fragments k.. of frags, each found at or
\* after the cursor and the cursor moved past its first occurrence; 0 when
\* one of them is not found
RECURSIVE CursorAfter(_, _, _, _)
CursorPast(c, frags, k, cur, places) ==
    IF places = {} THEN 0
    ELSE CursorAfter(c, frags, k + 1, SetMin(places) + Len(frags[k]))

CursorAfter(c, frags, k, cur) ==
    IF k > Len(frags) THEN cur
    ELSE CursorPast(c, frags, k, cur,
                    { p \in cur..(Len(c) + 1) : Occurs(c, Casefold(frags[k]), p) })

\* the case-folded text c passes the scan of pattern
Passes(c, pattern) ==
    /\ pattern.initial.present => StartsWith(c, Casefold(pattern.initial.s))
    /\ CursorAfter(c, pattern.any, 1,
                   IF pattern.initial.present THEN Len(pattern.initial.s) + 1 ELSE 1) # 0
    /\ pattern.final.present => EndsWith(c, Casefold(pattern.final.s))

\* C12: a substring node is true iff some stored value, case-folded, passes
\* the scan: it starts with the initial anchor (cursor past it), each interior
\* fragment is found in order at or after the cursor (cursor past its first
\* occurrence), and it ends with the final anchor whatever the cursor is.
C12_SubstringScan ==
    SubstringScan =>
        ev_res = Bool(\E v \in StoredStrings(ev_entry, StringPairs(ev_entry)) :
                          Passes(Casefold(v), ev_node.pattern))

\* (cn=al*) on the entry whose cn values are bo and alice
C12_Witness ==
    /\ mode = "eval"
    /\ ev_node = SubstringNode(T_cn, [ initial |-> Anchor(T_al), any |-> <<>>, final |-> NoAnchor ])
    /\ ev_entry.mapping = RecBoAlice.mapping
    /\ ev_res = "T"

-----------------------------------------------------------------------------
(* Properties of SnapshotReader *)

\* b is a letter-case variant of a
CaseVariant(a, b) ==
    Len(a) = Len(b) /\ \A k \in 1..Len(a) : LowerChar(a[k]) = LowerChar(b[k])

\* the positions (from 1) of the schema records whose name the asked name is
\* a letter-case variant of
Named(schema, name) == { i \in 1..Len(schema) : CaseVariant(schema[i].name, name) }

\* C13 as stated: for every property P of the parsed schema table and every
\* letter-case variant of P.name, get_property returns a PropertyDefinition
\* whose index is P's position; an empty or unmapped name returns none.
C13_EveryPropertyFoundByName ==
    (mode = "open" /\ asked.made) =>
        /\ \A i \in Named(file.schema, asked.name) :
               asked.result.found /\ asked.result.index = i - 1
        /\ (asked.name = <<>> \/ Named(file.schema, asked.name) = {}) => ~asked.result.found

\* C13 amended: for a letter-case variant of the name of some property,
\* get_property returns the last property of the schema table that has the
\* name in some letter case, with its position as index and its on-disk name;
\* a name no property has in any letter case returns none.
C13_LastPropertyOfTheName ==
    (mode = "open" /\ asked.made) =>
        IF Named(file.schema, asked.name) = {} THEN ~asked.result.found
        ELSE /\ asked.result.found
             /\ asked.result.index = SetMax(Named(file.schema, asked.name)) - 1
             /\ asked.result.name = file.schema[SetMax(Named(file.schema, asked.name))].name

\* get_property("CN") on a reader whose schema table is Cn, u
C13_Witness ==
    /\ mode = "open" /\ reader.st = "open" /\ asked.made
    /\ Len(reader.properties) = 2
    /\ reader.properties[1].name = << "C", "n" >> /\ reader.properties[2].name = << "u" >>
    /\ asked.name = << "C", "N" >>
    /\ asked.result.found /\ asked.result.index = 0

\* why opening the file must fail, if it must
Cause(f) ==
    IF ~f.is_file THEN "NotFound"
    ELSE IF f.size < HeaderBytes THEN "TruncatedFile"
    ELSE IF f.fileoffset_high > 0 \/ f.fileoffset_low >= f.size THEN "MalformedHeader"
    ELSE IF f.fileoffset_low + SchemaLength(f.schema) > f.size THEN "TruncatedFile"
    ELSE "none"

\* the exceptions the constructor raises for the files of one cause
KindsNotFound == { SnapshotReader(f, mm).st : f \in { g \in Files : Cause(g) = "NotFound" }, mm \in BOOLEAN }
KindsTruncatedFile == { SnapshotReader(f, mm).st : f \in { g \in Files : Cause(g) = "TruncatedFile" }, mm \in BOOLEAN }
KindsMalformedHeader == { SnapshotReader(f, mm).st : f \in { g \in Files : Cause(g) = "MalformedHeader" }, mm \in BOOLEAN }

\* C17: opening fails with a distinct error kind per cause: the exception
\* raised for a file that is not a regular file, for one whose header or
\* schema table is cut by the end of the file, and for one whose mapping
\* offset lies outside the file is never an exception raised for another of
\* the three causes.
C17_ErrorKindPerCause ==
    (mode = "open" /\ reader.st # "-" /\ Cause(file) # "none") =>
        /\ reader.st # "open"
        /\ Cause(file) # "NotFound" => reader.st \notin KindsNotFound
        /\ Cause(file) # "TruncatedFile" => reader.st \notin KindsTruncatedFile
        /\ Cause(file) # "MalformedHeader" => reader.st \notin KindsMalformedHeader

\* the position of the k-th object record (from 1) as the stated sizes give it
RecordAt(f, k) == HeaderBytes + Sum(f.sizes, k - 1)

\* the size field of the k-th object record lies inside the file
SizeFieldInside(f, k) == k <= Len(f.sizes) /\ RecordAt(f, k) + 4 <= f.size

\* the records whose size field is cut by the end of the file, among those
\* the header counts
CutRecords(f) == { k \in 1..f.num_objects : ~SizeFieldInside(f, k) }

\* the object records end before the header's object count has been read
EndsEarly(f) == f.is_file /\ Cause(f) = "none" /\ CutRecords(f) # {}

\* C18: opening a snapshot whose object records end before the header's
\* object count has been read succeeds: the offset index is the sequence of
\* record positions visited before the first short read, it starts at 0x43E
\* and is no longer than the object count.
C18_TruncatedIndexTolerated ==
    (mode = "open" /\ reader.st # "-" /\ EndsEarly(file)) =>
        /\ reader.st = "open"
        /\ reader.offsets = [ k \in 1..(SetMin(CutRecords(file)) - 1) |-> RecordAt(file, k) ]
        /\ reader.offsets # <<>> => reader.offsets[1] = HeaderBytes
        /\ Len(reader.offsets) <= file.num_objects

-----------------------------------------------------------------------------
(* Properties of SnapshotEntry.get_attribute_values() *)

\* the record carries a pair of the property the name resolves to
Carries(rec, prop) == prop.found /\ \E k \in 1..Len(rec.mapping) : rec.mapping[k].idx = prop.index

\* the read of the attribute by an entry built anew from the record, whose
\* caches are empty
BypassRead(rec, attr_name, raw) == get_attribute_values(NewEntry(rec).entry, attr_name, raw)

SameAnswer(call, got) == call.st = got.st /\ call.values = got.values

\* C14: for an attribute the entry carries, after any sequence of earlier
\* lookups (decoded or raw, of it or of other attributes) get_attribute_values
\* returns what the previous call for the attribute in the same mode returned
\* and what a cache-bypassed read of the record returns; neither cache serves
\* the other mode's values.
C14_CachedEqualsBypassed ==
    mode = "lookup" =>
        \A k \in 1..Len(lk_calls) :
            Carries(lk_record, get_property(lk_calls[k].attr)) =>
                /\ SameAnswer(lk_calls[k], BypassRead(lk_record, lk_calls[k].attr, lk_calls[k].raw))
                /\ \A j \in 1..(k - 1) :
                       (/\ Lower(lk_calls[j].attr) = Lower(lk_calls[k].attr)
                        /\ lk_calls[j].raw = lk_calls[k].raw)
                           => SameAnswer(lk_calls[k], lk_calls[j])

\* a decoded lookup of o, then a raw one, then a decoded one again: hex text,
\* bytes, hex text
C14_Witness ==
    /\ mode = "lookup" /\ lk_record = RecOctet /\ Len(lk_calls) = 3
    /\ lk_calls[1].attr = T_o /\ ~lk_calls[1].raw /\ lk_calls[1].values[1].t = "str"
    /\ lk_calls[2].attr = T_o /\ lk_calls[2].raw /\ lk_calls[2].values[1].t = "bytes"
    /\ lk_calls[3].attr = T_o /\ ~lk_calls[3].raw /\ lk_calls[3].values = lk_calls[1].values
    /\ 3 \in DOMAIN lk_entry.cache /\ 3 \in DOMAIN lk_entry.raw_cache

-----------------------------------------------------------------------------
(* Properties of QueryEngine construction and of to_dict() *)

Resolves(name) == get_property(name).found
Unresolved(name) == ~get_property(name).found
NotBlank(name) == name # <<>>

CanonicalNames(names) == [ i \in 1..Len(names) |-> get_property(names[i]).name ]

\* the effective selection for the names that resolve
Effective(resolved) ==
    IF resolved = <<>> THEN NoSelection ELSE Selection(CanonicalNames(resolved))

\* the requested names, none counting as no name
Requested(attrs) == IF attrs.given THEN attrs.names ELSE <<>>

\* C16 as stated: construction splits the requested selection, in request
\* order, into the canonical names of the entries that resolve in the schema
\* and the entries that do not (unknown_attributes); no entry is in both,
\* construction never fails, and if no entry resolves the effective selection
\* is none.
C16_SelectionSplit ==
    (mode = "project" /\ engine.built) =>
        /\ engine.selected = Effective(SelectSeq(Requested(attributes), Resolves))
        /\ engine.unknown = SelectSeq(Requested(attributes), Unresolved)

StrippedNames(names) == SelectSeq([ i \in 1..Len(names) |-> Strip(names[i]) ], NotBlank)

\* C16 amended: the split is made of the requested entries stripped of
\* surrounding whitespace, and entries that are empty after stripping are in
\* neither list.
C16_StrippedSelectionSplit ==
    (mode = "project" /\ engine.built) =>
        /\ engine.selected = Effective(SelectSeq(StrippedNames(Requested(attributes)), Resolves))
        /\ engine.unknown = SelectSeq(StrippedNames(Requested(attributes)), Unresolved)

\* the selection " u", zz: u is selected, zz is unknown
C16_Witness ==
    /\ mode = "project" /\ engine.built
    /\ attributes = Selection(<< << " ", "u" >>, T_zz >>)
    /\ engine.selected = Selection(<< T_u >>)
    /\ engine.unknown = << T_zz >>

\* the entry's record
RecordOf(entry) == Record(entry.mapping)

AllReadable(entry) == \A k \in 1..Len(entry.mapping) : entry.mapping[k].payload.readable

\* the pairs (by position) that are the first of their property
FirstPairs(entry) ==
    SelectSeq([ k \in 1..Len(entry.mapping) |-> k ],
              LAMBDA k : /\ entry.mapping[k].idx < Len(Properties)
                         /\ \A j \in 1..(k - 1) : entry.mapping[j].idx # entry.mapping[k].idx)

\* the selected names (by position) that name a property the entry carries
\* and that no earlier selected name names
FirstSelected(entry, names) ==
    SelectSeq([ i \in 1..Len(names) |-> i ],
              LAMBDA i : /\ Carries(RecordOf(entry), get_property(names[i]))
                         /\ \A j \in 1..(i - 1) :
                                get_property(names[j]).index # get_property(names[i]).index)

\* empty list -> [], one element -> the scalar, longer -> the list
Collapsed(values) ==
    [ kind |-> IF Len(values) = 1 THEN "scalar" ELSE "list", values |-> values ]

ItemOf(entry, name) ==
    [ name |-> name, value |-> Collapsed(BypassRead(RecordOf(entry), name, FALSE).values) ]

ExpectedRecord(entry, attrs) ==
    IF attrs.given /\ attrs.names # <<>>
    THEN [ k \in 1..Len(FirstSelected(entry, attrs.names)) |->
             ItemOf(entry, get_property(attrs.names[FirstSelected(entry, attrs.names)[k]]).name) ]
    ELSE [ k \in 1..Len(FirstPairs(entry)) |->
             ItemOf(entry, Properties[entry.mapping[FirstPairs(entry)[k]].idx + 1].name) ]

\* C15: to_dict with a selection returns a record whose keys are the selected
\* attributes the entry carries, in selection order; without a selection the
\* entry's attributes in the storage order of its pair list; an empty value
\* list maps to [], a one-element list to its scalar, a longer list to itself.
C15_ToDictProjects ==
    (mode = "project" /\ pj_out.made /\ AllReadable(pj_entry)) =>
        /\ pj_out.st = "ok"
        /\ pj_out.items = ExpectedRecord(pj_entry, pj_out.selection)

-----------------------------------------------------------------------------
(* Properties of two searches *)

Shorter(a, b) == IF Len(a) <= Len(b) THEN Len(a) ELSE Len(b)

RanToEnd(at) == at \in { "done", "raised" }

C20_StatsUntouchedUntilExhaustion ==
    mode = "search" =>
        /\ pc # "done" => stats = previous.stats_before
        /\ pc = "done" => stats = QueryStats(evaluated, matches)

\* a second search abandoned after its first result, the stats still those
\* of the first search
C20_Witness ==
    /\ mode = "search" /\ previous.made /\ previous.pc = "done"
    /\ pc = "abandoned" /\ Len(yielded) = 1
    /\ stats = previous.stats_before
    /\ stats.matches = 1 /\ stats.entries_evaluated = 2

-----------------------------------------------------------------------------
(* The limit as a bound for every integer *)

AtMost(n) == IF n > 0 THEN n ELSE 0

\* C21: for any limit the caller supplies, 0 and negative values included,
\* search() never yields more than max(limit, 0) entries.
C21_NeverMoreThanLimit ==
    (mode = "search" /\ limit.set) => Len(yielded) <= AtMost(limit.n)

-----------------------------------------------------------------------------
(* What the parser constructs and what it raises *)

EmptyPattern == SubstringPattern(NoAnchor, <<>>, NoAnchor)

OnlyStars(value) == value # <<>> /\ \A i \in 1..Len(value) : value[i] = "*"

\* C22: the parser never constructs a Substring node whose pattern has no
\* initial anchor, no final anchor and no fragment; an item whose value is
\* made only of unescaped stars parses to the Presence node on the attribute.
C22_NoEmptySubstringPattern ==
    (ParseDone /\ parsed.st = "ok" /\ IsClosedItem(data)) =>
        /\ parsed.node.kind = "Substring" => parsed.node.pattern # EmptyPattern
        /\ OnlyStars(ValueText(data)) => parsed.node = PresenceNode(<< "a" >>)

\* C26: parse_filter either returns a filter tree or raises
\* FilterSyntaxError, whatever the text holds.
C26_OnlyFilterSyntaxError ==
    ParseDone => parsed.st \in { "ok", "FilterSyntaxError" }

-----------------------------------------------------------------------------
(* A pair whose property index is outside the schema table *)

Stray(pair) == pair.idx >= Len(Properties)

HasStrayPair(entry) == \E k \in 1..Len(entry.mapping) : Stray(entry.mapping[k])

\* the entry as it would be read without its out-of-range pairs
WithoutStray(entry) ==
    NewEntry(Record(SelectSeq(entry.mapping, LAMBDA pair : ~Stray(pair)))).entry

\* C23: on an entry whose mapping table holds a pair with a property index
\* outside [0, property-count), to_dict with or without a selection (and
\* materialise) raises nothing and returns the record of the remaining
\* attributes, the pair counting as an absent attribute.
C23_StrayPairIsAbsent ==
    (mode = "project" /\ pj_out.made /\ HasStrayPair(pj_entry)) =>
        /\ pj_out.st = "ok"
        /\ pj_out.items = to_dict(WithoutStray(pj_entry), pj_out.selection).items

-----------------------------------------------------------------------------
(* Short circuit of And and Or *)

\* ev_node is an And or an Or and has been evaluated on the entry
BooleanEvaluated ==
    /\ mode = "eval" /\ ev_res # "-" /\ ev_node.kind \in { "And", "Or" }

\* what the k-th child gives on the entry as it is read from the file
ChildAlone(k) == Evaluate(ev_node.nodes[k], NewEntry(RecordOf(ev_entry)).entry)

\* the result on which the node goes on to its next child
GoesOn == IF ev_node.kind = "And" THEN "T" ELSE "F"

\* the children that come after no child ending the evaluation
ReachedChildren ==
    { k \in 1..Len(ev_node.nodes) : \A j \in 1..(k - 1) : ChildAlone(j).res = GoesOn }

\* the children that end the evaluation where they stand
Deciding == { k \in ReachedChildren : ChildAlone(k).res = Negation(GoesOn) }

ReadBy(ks) == UNION { DOMAIN ChildAlone(k).entry.cache : k \in ks }

\* C24: And is false at its first false child and true iff all children are
\* true, Or is true at its first true child and true iff some child is true;
\* children are taken in order and a child after the deciding one is not
\* evaluated: the entry's cache holds what the reached children read and
\* nothing else.
C24_ShortCircuit ==
    BooleanEvaluated =>
        /\ ev_res = Negation(GoesOn) <=> Deciding # {}
        /\ ev_res = GoesOn <=> \A k \in 1..Len(ev_node.nodes) : ChildAlone(k).res = GoesOn
        /\ (ev_node.kind = "And" /\ ev_res = "T") <=>
               (ev_node.kind = "And" /\ \A k \in 1..Len(ev_node.nodes) : ChildAlone(k).res = "T")
        /\ (ev_node.kind = "Or" /\ ev_res = "T") <=>
               (ev_node.kind = "Or" /\ \E k \in ReachedChildren : ChildAlone(k).res = "T")
        /\ DOMAIN ev_entry.cache = ReadBy(ReachedChildren)
        /\ \A k \in ReachedChildren : \A i \in DOMAIN ChildAlone(k).entry.cache :
               ev_entry.cache[i] = ChildAlone(k).entry.cache[i]
        /\ ev_entry.raw_cache = EmptyCache

\* (&(cn=bo)(u=*)(cn=*)) on the entry storing cn al and u 8: false at the
\* first child, u never read
C24_Witness ==
    /\ BooleanEvaluated
    /\ ev_node = AndNode(<< EqualityNode(T_cn, Bytes(T_bo)), PresenceNode(T_u), PresenceNode(T_cn) >>)
    /\ RecordOf(ev_entry) = RecAlice
    /\ ev_res = "F"
    /\ DOMAIN ev_entry.cache = { 0 }

-----------------------------------------------------------------------------
(* The byte source is released by closing the decoder *)

IsOpen(src) == src.fh = "open" \/ src.mmap = "open"

Released(src) == src.fh # "open" /\ src.mmap # "open"

CloseAsked == block.close_calls > 0 \/ block.with \in { "left", "raised" }

\* C25: the file handle and the memory map stay open between a successful
\* open and close(), are released after close() and after the exit of a
\* with-block, exception or not, and an open that fails leaves neither of
\* them open.
C25_ReleasedExactlyByClose ==
    mode = "open" =>
        /\ (reader.st = "open" /\ ~CloseAsked) =>
               (source.fh = "open" /\ (use_mmap => source.mmap = "open"))
        /\ CloseAsked => Released(source)
        /\ reader.st \notin { "-", "open" } => Released(source)

-----------------------------------------------------------------------------
(* The consumer's reads between two steps of the iterator *)

\* the positions up to idx whose stored record the filter is true of
MatchesUpTo(n) ==
    SelectSeq([ i \in 1..n |-> i ], LAMBDA i : Evaluate(filter_node, NewEntry(snapshot[i]).entry).res = "T")

\* C27: whatever the consumer read on the entries it was given, and wherever
\* that left the read position, every entry and value decoded from the source
\* is the stored one, the entries yielded are the matching ones in offset
\* order, and a materialised record is the projection of the stored record.
C27_ReadsDoNotDependOnPosition ==
    mode = "stream" =>
        /\ Decoded(image, fh_pos, Offsets) = snapshot
        /\ yielded = MatchesUpTo(idx)
        /\ \A k \in DOMAIN records :
               /\ records[k].st = "ok"
               /\ records[k].items = materialise(engine, NewEntry(snapshot[yielded[k]]).entry).items

\* the first entry given was materialised before the iterator went on, the
\* read position was left inside the first record, and a second entry was
\* yielded after that
C27_Witness ==
    /\ mode = "stream" /\ Len(yielded) = 2
    /\ 1 \in DOMAIN records /\ records[1].scanned < yielded[2]
    /\ records[1].items # <<>>
    /\ fh_pos < Offsets[2]

=============================================================================
